---- MODULE Spec2Model ----
(***************************************************************************)
(* Neon Rain session/game-state engine: the virtual filesystem, the        *)
(* reactive security AI, the puzzle effect evaluator, the session manager  *)
(* and the socket / admin entry points that drive them.                    *)
(*                                                                         *)
(* Strings are sequences of chunks.  The chunk alphabet is prefix-free     *)
(* ("/", ".", " ", whole names, digits), so that JavaScript's startsWith,  *)
(* split('/') and join('/') on the strings the model uses are exactly      *)
(* prefix, split and join on the chunk sequences.                          *)
(***************************************************************************)
EXTENDS Integers, Sequences, FiniteSets, TLC

VARIABLES
  sessions,            \* SessionManager.sessions: live session id -> session object
  nextId,              \* number of uuids handed out so far
  globalRoundStarted,  \* SessionManager.globalRoundStarted
  sharedMeta,          \* meta objects that more than one tree node may reference
  db,                  \* the sessions table: session id -> persisted snapshot
  sockets,             \* socket.io connections: socket id -> connection state
  reqs,                \* POST /api/session/create requests in flight or answered
  inflight,            \* handlers suspended at an await: handler id -> captured context
  out                  \* what the last handler or engine call returned / emitted

vars == <<sessions, nextId, globalRoundStarted, sharedMeta, db, sockets, reqs, inflight, out>>

----------------------------------------------------------------------------
(* Bounds of the model *)

MaxSetLevel == 11         \* admin setState levels range over -2 .. MaxSetLevel
MaxRaise == 3             \* raiseAlert amounts range over 0 .. MaxRaise (0: level absent)
MaxReqs == 3              \* session-create requests sent in one run
MaxSockets == 2           \* socket slots
MaxBulkMeta == 1          \* bulk push-file requests that carry a meta object
MaxCommands == 2          \* commands a session executes in one run
MaxLogged == 104           \* commands logged for one session in one run
MaxPlainLen == 2      \* the longest plaintext encrypted and decrypted
MaxPathLen == 4           \* characters of a path given to resolvePath
MaxLineLen == 7           \* characters of a command line given to parse
MaxCalls == 3             \* VFS operations called on one session in a row

----------------------------------------------------------------------------
(* String helpers: split('/').filter(p => p), '/' + parts.join('/'),       *)
(* startsWith, trim                                                        *)

NULL == [type |-> "null"]

RECURSIVE SplitAcc(_, _, _)
SplitAcc(s, cur, acc) ==
  IF s = <<>> THEN (IF cur = <<>> THEN acc ELSE Append(acc, cur))
  ELSE IF Head(s) = "/"
       THEN SplitAcc(Tail(s), <<>>, IF cur = <<>> THEN acc ELSE Append(acc, cur))
       ELSE SplitAcc(Tail(s), Append(cur, Head(s)), acc)

\* path.split('/').filter(p => p)
Split(s) == SplitAcc(s, <<>>, <<>>)

RECURSIVE JoinParts(_)
JoinParts(parts) ==
  IF parts = <<>> THEN <<>>
  ELSE IF Len(parts) = 1 THEN parts[1]
       ELSE parts[1] \o <<"/">> \o JoinParts(Tail(parts))

\* '/' + parts.join('/')
SlashJoin(parts) == <<"/">> \o JoinParts(parts)

StartsWith(s, t) == Len(t) <= Len(s) /\ SubSeq(s, 1, Len(t)) = t

RECURSIVE TrimLeft(_)
TrimLeft(s) == IF s # <<>> /\ Head(s) = " " THEN TrimLeft(Tail(s)) ELSE s

RECURSIVE TrimRight(_)
TrimRight(s) ==
  IF s # <<>> /\ s[Len(s)] = " " THEN TrimRight(SubSeq(s, 1, Len(s) - 1)) ELSE s

Trim(s) == TrimRight(TrimLeft(s))

\* toLowerCase, chunk by chunk
LowerChar(c) ==
  CASE c = "A" -> "a" [] c = "X" -> "x" [] c = "LS" -> "ls" [] c = "RM" -> "rm"
    [] c = "TOKEN" -> "token"
    [] OTHER -> c

ToLowerCase(s) == [i \in 1..Len(s) |-> LowerChar(s[i])]

Min(a, b) == IF a < b THEN a ELSE b
Max(a, b) == IF a > b THEN a ELSE b

\* NaN, as parseInt returns it
NaN == [nan |-> TRUE, val |-> 0]
Num(n) == [nan |-> FALSE, val |-> n]

DecDigits == <<"0", "1", "2", "3", "4", "5", "6", "7", "8", "9">>
HexLower == DecDigits \o <<"a", "b", "c", "d", "e", "f">>
HexUpper == DecDigits \o <<"A", "B", "C", "D", "E", "F">>

\* the value of a digit character in a radix, -1 when it is no digit of it
DigitVal(c, radix) ==
  IF \E i \in 1..radix : HexLower[i] = c THEN (CHOOSE i \in 1..radix : HexLower[i] = c) - 1
  ELSE IF \E i \in 1..radix : HexUpper[i] = c
       THEN (CHOOSE i \in 1..radix : HexUpper[i] = c) - 1
       ELSE -1

\* the digits at the head of a string, read in a radix onto acc
RECURSIVE ReadDigits(_, _, _)
ReadDigits(s, radix, acc) ==
  IF s = <<>> \/ DigitVal(Head(s), radix) < 0 THEN acc
  ELSE ReadDigits(Tail(s), radix, acc * radix + DigitVal(Head(s), radix))

\* the steps of parseInt on a string without leading blanks: a sign, for radix 16
\* a 0x prefix, then digits, of which there must be one
StripSign(t) == IF t # <<>> /\ Head(t) \in {"-", "+"} THEN Tail(t) ELSE t

StripPrefix(u, radix) ==
  IF radix = 16 /\ Len(u) >= 2 /\ u[1] = "0" /\ u[2] \in {"x", "X"} THEN Tail(Tail(u)) ELSE u

ParseDigits(v, radix, neg) ==
  IF v = <<>> \/ DigitVal(Head(v), radix) < 0 THEN NaN
  ELSE Num((IF neg THEN -1 ELSE 1) * ReadDigits(v, radix, 0))

ParseTrimmed(t, radix) ==
  ParseDigits(StripPrefix(StripSign(t), radix), radix, t # <<>> /\ Head(t) = "-")

\* parseInt(s, radix)
ParseInt(s, radix) == ParseTrimmed(TrimLeft(s), radix)

\* a ^ b on the low 16 bits, which are the bits String.fromCharCode keeps
RECURSIVE XorBits(_, _, _)
XorBits(a, b, bits) ==
  IF bits = 0 THEN 0
  ELSE ((a + b) % 2) + 2 * XorBits(a \div 2, b \div 2, bits - 1)

\* a + b on the low 16 bits in the place of a ^ b
Xor16_sum(a, b) == (a + b) % 65536

Xor16(a, b) == XorBits(a % 65536, b % 65536, 16)

\* String.fromCharCode(code) for a code unit: the characters the model names,
\* and one distinct character for every other code
FromCharCode(code) ==
  CASE code \in 48..57 -> DecDigits[code - 47]
    [] code \in 65..70 -> HexUpper[code - 54]
    [] code \in 97..102 -> HexLower[code - 86]
    [] code = 71 -> "G"
    [] code = 76 -> "L"
    [] OTHER -> "#" \o ToString(code)

\* hexData.match(/.{2}/g): the string cut into pairs, an odd last character dropped
RECURSIVE Pairs(_)
Pairs(s) == IF Len(s) < 2 THEN <<>> ELSE <<SubSeq(s, 1, 2)>> \o Pairs(Tail(Tail(s)))

----------------------------------------------------------------------------
(* AI Engine *)

\* AIEngine.sendMessage: the message object handed back to the transport
sendMessage(kind) == [type |-> "ai_message", message |-> kind, shouldLogout |-> FALSE]

\* Math.floor(Math.random() * 20) - 10
RandomVariations == {-10, 0, 9}

tracePercent(level, randomVariation) == Max(0, Min(100, level * 10 + randomVariation))

\* AIEngine.trigger, case 'suspicious_command'
TriggerSuspicious(state, rv) ==
  LET lvl == Min(state.level + 2, 10)
      st1 == IF state.status = "idle" THEN "probing" ELSE state.status
  IN IF lvl >= 10
     THEN [ai  |-> [state EXCEPT !.level = lvl, !.status = "alarm"],
           msg |-> [sendMessage("lockdown") EXCEPT !.shouldLogout = TRUE]]
     ELSE [ai  |-> [state EXCEPT !.level = lvl,
                                 !.status = IF lvl >= 5 /\ st1 = "probing"
                                            THEN "alarm" ELSE st1],
           msg |-> [type |-> "ai_message", message |-> "trace",
                    shouldLogout |-> FALSE, trace |-> tracePercent(lvl, rv)]]

\* AIEngine.trigger, case 'failed_puzzle'
TriggerFailedPuzzle(state) ==
  LET lvl == Min(state.level + 1, 10)
  IN [ai  |-> [state EXCEPT !.level = lvl,
                            !.status = IF lvl >= 5 /\ state.status = "probing"
                                       THEN "alarm" ELSE state.status],
      msg |-> sendMessage("failed_auth")]

\* AIEngine.trigger, case 'admin_escalate'
TriggerAdminEscalate(state) ==
  [ai  |-> [state EXCEPT !.level = Min(state.level + 3, 10), !.status = "alarm"],
   msg |-> sendMessage("critical_alert")]

EventTypes == {"suspicious_command", "failed_puzzle", "admin_escalate", "unknown_event"}

\* a trigger whose unknown events calm the session down
trigger_calming(state, eventType, rv) ==
  CASE eventType = "suspicious_command" -> TriggerSuspicious(state, rv)
    [] eventType = "failed_puzzle"      -> TriggerFailedPuzzle(state)
    [] eventType = "admin_escalate"     -> TriggerAdminEscalate(state)
    [] OTHER                            -> [ai |-> [state EXCEPT !.status = "idle"],
                                            msg |-> NULL]

\* AIEngine.trigger(session, eventType, data)
trigger(state, eventType, rv) ==
  CASE eventType = "suspicious_command" -> TriggerSuspicious(state, rv)
    [] eventType = "failed_puzzle"      -> TriggerFailedPuzzle(state)
    [] eventType = "admin_escalate"     -> TriggerAdminEscalate(state)
    [] OTHER                            -> [ai |-> state, msg |-> NULL]

\* the status argument of setState: "" stands for an absent (falsy) status
StatusInputs == {"", "idle", "probing", "alarm", "lockdown"}

\* setState storing the requested level as it is
setState_unclamped(state, level, status) ==
  [state EXCEPT !.level = level, !.status = IF status = "" THEN "idle" ELSE status]

\* AIEngine.setState(session, level, status)
setState(state, level, status) ==
  [state EXCEPT !.level = Max(0, Min(level, 10)),
                !.status = IF status = "" THEN "idle" ELSE status]

\* the fixed question/answer set of issueChallenge
challenges == << [question |-> "life_universe_everything", answer |-> <<"4", "2">>],
                 [question |-> "after_2_3_5_7_11",         answer |-> <<"1", "3">>] >>

\* AIEngine.issueChallenge(session): i is the index Math.random picks
issueChallenge(state, i) ==
  [ai |-> [state EXCEPT !.challenge = challenges[i]], msg |-> sendMessage("challenge")]

\* the answers a player may type
Answers == { <<"4", "2">>, <<" ", "4", "2", " ">>, <<"1", "3">>, <<"X">> }

\* a validation that compares the answer as typed, untrimmed
validateChallenge_untrimmed(state, answer) ==
  IF state.challenge = NULL THEN [ai |-> state, res |-> [type |-> "false"]]
  ELSE IF answer = state.challenge.answer
       THEN [ai  |-> [state EXCEPT !.level = Max(0, state.level - 2),
                                   !.status = IF Max(0, state.level - 2) <= 2 THEN "idle" ELSE @,
                                   !.challenge = NULL],
             res |-> [type |-> "challenge", success |-> TRUE]]
       ELSE [ai  |-> [state EXCEPT !.level = Min(state.level + 1, 10)],
             res |-> [type |-> "challenge", success |-> FALSE]]

\* AIEngine.validateChallenge(session, answer)
validateChallenge(state, answer) ==
  IF state.challenge = NULL THEN [ai |-> state, res |-> [type |-> "false"]]
  ELSE IF ToLowerCase(Trim(answer)) = ToLowerCase(state.challenge.answer)
       THEN LET lvl == Max(0, state.level - 2)
            IN [ai  |-> [state EXCEPT !.level = lvl,
                                      !.status = IF lvl <= 2 THEN "idle" ELSE @,
                                      !.challenge = NULL],
                res |-> [type |-> "challenge", success |-> TRUE]]
       ELSE [ai  |-> [state EXCEPT !.level = Min(state.level + 1, 10)],
             res |-> [type |-> "challenge", success |-> FALSE]]

----------------------------------------------------------------------------
(* Filesystem nodes.  A node's meta property is absent, an object that     *)
(* only this node references (kept inline), or an object that several      *)
(* nodes may reference (kept in sharedMeta and named by its index).        *)

MetaNone == [kind |-> "none"]
MetaOwn(m) == [kind |-> "own", val |-> m]
MetaShared(i) == [kind |-> "shared", ref |-> i]

EmptyMeta == <<>>

Dir(children, meta) == [type |-> "dir", children |-> children, meta |-> meta]
File(contents, meta) == [type |-> "file", contents |-> contents, meta |-> meta]

\* node.meta || {}
MetaOf(node, heap) ==
  CASE node.meta.kind = "none"   -> EmptyMeta
    [] node.meta.kind = "own"    -> node.meta.val
    [] node.meta.kind = "shared" -> heap[node.meta.ref]

\* node.meta?.key, read for its truth value
MetaFlag(node, heap, key) ==
  LET m == MetaOf(node, heap) IN key \in DOMAIN m /\ m[key] = TRUE

\* m[key] = value on a meta object
MetaPut(m, key, value) ==
  [k \in DOMAIN m \cup {key} |-> IF k = key THEN value ELSE m[k]]

HasChild(node, name) == "children" \in DOMAIN node /\ name \in DOMAIN node.children

ChildrenOf(node) == IF "children" \in DOMAIN node THEN node.children ELSE <<>>

RECURSIVE Walk(_, _)
Walk(node, parts) ==
  IF parts = <<>> THEN node
  ELSE IF ~HasChild(node, Head(parts)) THEN NULL
       ELSE Walk(node.children[Head(parts)], Tail(parts))

\* the tree with the node at parts replaced by new (the node must exist)
RECURSIVE ReplaceAt(_, _, _)
ReplaceAt(node, parts, new) ==
  IF parts = <<>> THEN new
  ELSE [node EXCEPT !.children =
          [n \in DOMAIN node.children |->
             IF n = Head(parts) THEN ReplaceAt(node.children[n], Tail(parts), new)
             ELSE node.children[n]]]

\* dirNode.children[name] = child
PutChild(dirNode, name, child) ==
  [type |-> dirNode.type, meta |-> dirNode.meta,
   children |-> [n \in DOMAIN ChildrenOf(dirNode) \cup {name} |->
                   IF n = name THEN child ELSE dirNode.children[n]]]

\* delete dirNode.children[name]
DropChild(dirNode, name) ==
  [dirNode EXCEPT !.children = [n \in DOMAIN dirNode.children \ {name} |->
                                  dirNode.children[n]]]

----------------------------------------------------------------------------
(* VFS Engine *)

ROOT == <<"/">>

\* VFSEngine.resolvePath(fs, currentPath, targetPath); <<>> is an absent target
RECURSIVE ResolveParts(_, _)
ResolveParts(parts, targetParts) ==
  IF targetParts = <<>> THEN parts
  ELSE LET part == Head(targetParts) IN
       IF part = <<".">> THEN ResolveParts(parts, Tail(targetParts))
       ELSE IF part = <<".", ".">>
            THEN ResolveParts(IF Len(parts) > 0 THEN SubSeq(parts, 1, Len(parts) - 1)
                              ELSE parts, Tail(targetParts))
            ELSE ResolveParts(Append(parts, part), Tail(targetParts))

\* a relative target resolved against the root instead of currentPath
resolvePath_fromRoot(currentPath, targetPath) ==
  IF targetPath = <<>> THEN (IF currentPath = <<>> THEN ROOT ELSE currentPath)
  ELSE IF Head(targetPath) = "/" THEN targetPath
       ELSE SlashJoin(ResolveParts(<<>>, Split(targetPath)))

resolvePath(currentPath, targetPath) ==
  IF targetPath = <<>> THEN (IF currentPath = <<>> THEN ROOT ELSE currentPath)
  ELSE IF Head(targetPath) = "/" THEN targetPath
       ELSE SlashJoin(ResolveParts(Split(currentPath), Split(targetPath)))

\* VFSEngine.getNode(fs, path)
getNode(fs, path) == IF path = ROOT THEN fs.root ELSE Walk(fs.root, Split(path))

\* an accessibility test by whole segments only, without the string-prefix test
isPathUnlocked_bySegment(session, path) ==
  \E i \in 1..Len(Split(path)) :
    SlashJoin(SubSeq(Split(path), 1, i)) \in session.unlockedPaths

\* VFSEngine.isPathUnlocked(session, path)
isPathUnlocked(session, path) ==
  IF "unlockedPaths" \notin DOMAIN session THEN TRUE
  ELSE LET parts == Split(path) IN
       \/ \E i \in 1..Len(parts) : SlashJoin(SubSeq(parts, 1, i)) \in session.unlockedPaths
       \/ \E unlocked \in session.unlockedPaths : StartsWith(path, unlocked)

\* a thrown Error / a returned value of a VFS operation
Fail(err, session, heap) ==
  [ok |-> FALSE, err |-> err, session |-> session, heap |-> heap, val |-> NULL]
Done(val, session, heap) ==
  [ok |-> TRUE, err |-> "", session |-> session, heap |-> heap, val |-> val]

ChildPath(resolvedPath, name) ==
  IF resolvedPath = ROOT THEN <<"/">> \o name ELSE resolvedPath \o <<"/">> \o name

\* VFSEngine.list(session, path): the names and types of the visible children
list(session, heap, path) ==
  LET resolvedPath == resolvePath(session.currentPath, path)
      node == getNode(session.fs, resolvedPath)
  IN IF node = NULL THEN Fail("not_found", session, heap)
     ELSE IF node.type # "dir" THEN Fail("not_a_directory", session, heap)
     ELSE IF MetaFlag(node, heap, "locked") THEN Fail("permission_denied", session, heap)
     ELSE IF ~isPathUnlocked(session, resolvedPath)
          THEN Fail("permission_denied", session, heap)
     ELSE Done({ [name |-> n, type |-> node.children[n].type] :
                   n \in { m \in DOMAIN ChildrenOf(node) :
                             isPathUnlocked(session, ChildPath(resolvedPath, m)) } },
               session, heap)

\* VFSEngine.readFile(session, path)
readFile(session, heap, path) ==
  LET resolvedPath == resolvePath(session.currentPath, path)
      node == getNode(session.fs, resolvedPath)
  IN IF node = NULL THEN Fail("not_found", session, heap)
     ELSE IF node.type # "file" THEN Fail("not_a_file", session, heap)
     ELSE IF MetaFlag(node, heap, "locked") THEN Fail("permission_denied", session, heap)
     ELSE IF ~isPathUnlocked(session, resolvedPath)
          THEN Fail("permission_denied", session, heap)
     ELSE Done(node.contents, session, heap)

\* VFSEngine.changeDirectory(session, path)
changeDirectory(session, heap, path) ==
  LET resolvedPath == resolvePath(session.currentPath, path)
      node == getNode(session.fs, resolvedPath)
  IN IF node = NULL THEN Fail("not_found", session, heap)
     ELSE IF node.type # "dir" THEN Fail("not_a_directory", session, heap)
     ELSE IF MetaFlag(node, heap, "locked") THEN Fail("permission_denied", session, heap)
     ELSE IF ~isPathUnlocked(session, resolvedPath)
          THEN Fail("permission_denied", session, heap)
     ELSE Done(resolvedPath, [session EXCEPT !.currentPath = resolvedPath], heap)

\* node.meta.key = value, creating node.meta when it is absent
SetMetaKey(node, heap, key, value) ==
  CASE node.meta.kind = "none" ->
         [node |-> [node EXCEPT !.meta = MetaOwn(MetaPut(EmptyMeta, key, value))],
          heap |-> heap]
    [] node.meta.kind = "own" ->
         [node |-> [node EXCEPT !.meta = MetaOwn(MetaPut(node.meta.val, key, value))],
          heap |-> heap]
    [] node.meta.kind = "shared" ->
         [node |-> node,
          heap |-> [heap EXCEPT ![node.meta.ref] = MetaPut(@, key, value)]]

WithRoot(session, root) == [session EXCEPT !.fs = [root |-> root]]

\* VFSEngine.setLock(session, path, locked)
setLock(session, heap, path, locked) ==
  LET resolvedPath == resolvePath(session.currentPath, path)
      node == getNode(session.fs, resolvedPath)
  IN IF node = NULL THEN Fail("not_found", session, heap)
     ELSE LET r == SetMetaKey(node, heap, "locked", locked)
          IN Done([path |-> resolvedPath, locked |-> locked],
                  WithRoot(session, ReplaceAt(session.fs.root, Split(resolvedPath), r.node)),
                  r.heap)

\* VFSEngine.writeFile(session, path, contents, meta) and
\* VFSEngine.addFile(session, path, contents, meta): the two bodies are the same
writeFile(session, heap, path, contents, meta) ==
  LET resolvedPath == resolvePath(session.currentPath, path)
      parts == Split(resolvedPath)
      \* parts.pop() of an empty array is undefined, which names the key "undefined"
      filename == IF parts = <<>> THEN <<"undefined">> ELSE parts[Len(parts)]
      dirParts == IF parts = <<>> THEN <<>> ELSE SubSeq(parts, 1, Len(parts) - 1)
      dirNode == Walk(session.fs.root, dirParts)
  IN IF dirNode = NULL \/ dirNode.type # "dir"
     THEN Fail("invalid_directory", session, heap)
     ELSE Done(resolvedPath,
               WithRoot(session, ReplaceAt(session.fs.root, dirParts,
                                           PutChild(dirNode, filename, File(contents, meta)))),
               heap)

addFile(session, heap, path, contents, meta) == writeFile(session, heap, path, contents, meta)

\* parts.pop() and what is left of parts; popping an empty array gives undefined,
\* which as an object key is "undefined"
LastName(parts) == IF parts = <<>> THEN <<"undefined">> ELSE parts[Len(parts)]
ButLast(parts) == IF parts = <<>> THEN <<>> ELSE SubSeq(parts, 1, Len(parts) - 1)

\* VFSEngine.rename without the test for an existing newName
rename_overwrite(session, heap, path, newName) ==
  LET resolvedPath == resolvePath(session.currentPath, path)
      parts == Split(resolvedPath)
      parentNode == Walk(session.fs.root, ButLast(parts))
  IN IF parentNode = NULL \/ parentNode.type # "dir" \/ ~HasChild(parentNode, LastName(parts))
     THEN Fail("no_such_file", session, heap)
     ELSE Done(ChildPath(SlashJoin(ButLast(parts)), newName),
               WithRoot(session,
                        ReplaceAt(session.fs.root, ButLast(parts),
                                  DropChild(PutChild(parentNode, newName,
                                                     parentNode.children[LastName(parts)]),
                                            LastName(parts)))),
               heap)

\* VFSEngine.rename(session, path, newName)
rename(session, heap, path, newName) ==
  LET resolvedPath == resolvePath(session.currentPath, path)
      parts == Split(resolvedPath)
      oldName == LastName(parts)
      parentParts == ButLast(parts)
      parentNode == Walk(session.fs.root, parentParts)
  IN IF parentNode = NULL \/ parentNode.type # "dir"
     THEN Fail("invalid_parent", session, heap)
     ELSE IF ~HasChild(parentNode, oldName) THEN Fail("no_such_file", session, heap)
     ELSE IF HasChild(parentNode, newName) THEN Fail("already_exists", session, heap)
     ELSE LET put == PutChild(parentNode, newName, parentNode.children[oldName])
          IN Done(ChildPath(SlashJoin(parentParts), newName),
                  WithRoot(session, ReplaceAt(session.fs.root, parentParts,
                                              DropChild(put, oldName))),
                  heap)

\* the entry a directory gets when the tree's root itself is moved into it: a
\* reference back to the root, which closes a cycle
RootLink == [type |-> "dir", children |-> <<>>, meta |-> MetaNone, cycle |-> TRUE]

\* VFSEngine.move(session, sourcePath, targetPath).  The source is first entered
\* into the target and then removed from its parent, so a source moved into itself
\* or below itself leaves the tree
move(session, heap, sourcePath, targetPath) ==
  LET resolvedSource == resolvePath(session.currentPath, sourcePath)
      resolvedTarget == resolvePath(session.currentPath, targetPath)
      sourceNode == getNode(session.fs, resolvedSource)
      targetNode == getNode(session.fs, resolvedTarget)
      sourceParts == Split(resolvedSource)
      sourceName == LastName(sourceParts)
      parentParts == ButLast(sourceParts)
  IN IF sourceNode = NULL THEN Fail("no_such_file", session, heap)
     ELSE IF targetNode = NULL \/ targetNode.type # "dir"
          THEN Fail("not_a_directory", session, heap)
     ELSE IF HasChild(targetNode, sourceName) THEN Fail("already_exists", session, heap)
     ELSE LET entered == ReplaceAt(session.fs.root, Split(resolvedTarget),
                                   PutChild(targetNode, sourceName,
                                            IF sourceParts = <<>> THEN RootLink
                                            ELSE sourceNode))
              sourceParent == Walk(entered, parentParts)
          IN Done(ChildPath(resolvedTarget, sourceName),
                  WithRoot(session, ReplaceAt(entered, parentParts,
                                              DropChild(sourceParent, sourceName))),
                  heap)

\* new RegExp(pattern, 'i').test(text), for a pattern without metacharacters
RegexTest(pattern, text) ==
  \E i \in 1..(Len(text) - Len(pattern) + 1) :
    ToLowerCase(SubSeq(text, i, i + Len(pattern) - 1)) = ToLowerCase(pattern)

\* a search that passes over every node carrying a locked flag of its own
RECURSIVE searchNode_unlocked(_, _, _)
searchNode_unlocked(node, path, pattern) ==
  IF node.meta.kind = "own" /\ "locked" \in DOMAIN node.meta.val /\ node.meta.val.locked
  THEN {}
  ELSE IF node.type = "file"
  THEN (IF RegexTest(pattern, path) \/ RegexTest(pattern, node.contents)
        THEN {[path |-> path, type |-> "file",
               match |-> IF RegexTest(pattern, path) THEN "filename" ELSE "content"]}
        ELSE {})
  ELSE UNION { searchNode_unlocked(node.children[n], ChildPath(path, n), pattern) :
                 n \in DOMAIN ChildrenOf(node) }

\* lines 325-336: the closure searchNode(node, path); the hits as a set
RECURSIVE searchNode(_, _, _)
searchNode(node, path, pattern) ==
  IF node.type = "file"
  THEN (IF RegexTest(pattern, path) \/ RegexTest(pattern, node.contents)
        THEN {[path |-> path, type |-> "file",
               match |-> IF RegexTest(pattern, path) THEN "filename" ELSE "content"]}
        ELSE {})
  ELSE UNION { searchNode(node.children[n], ChildPath(path, n), pattern) :
                 n \in DOMAIN ChildrenOf(node) }

\* VFSEngine.search(session, pattern)
search(session, pattern) == searchNode(session.fs.root, ROOT, pattern)

XorTag == "ENCRYPTED:XOR:"

\* byte ^ keyNum for each pair of hex digits, a pair that is no number counting as 0
XorPairs(pairs, keyNum) ==
  [i \in 1..Len(pairs) |-> FromCharCode(Xor16(ParseInt(pairs[i], 16).val, keyNum))]

XorDecode(hexData, keyNum) == XorPairs(Pairs(hexData), keyNum)

\* lines 378-383: the node with the decrypted contents and its two flags, in the tree
DecryptedFlag(session, parts, decrypted, r) ==
  Done(decrypted, WithRoot(session, ReplaceAt(session.fs.root, parts, r.node)), r.heap)

DecryptedMark(session, parts, decrypted, r) ==
  DecryptedFlag(session, parts, decrypted, SetMetaKey(r.node, r.heap, "decrypted", TRUE))

\* a decryption that returns the plaintext and leaves the node as it was
DecryptedWrite_dry(session, heap, parts, node, decrypted) == Done(decrypted, session, heap)

DecryptedWrite(session, heap, parts, node, decrypted) ==
  DecryptedMark(session, parts, decrypted,
                SetMetaKey([node EXCEPT !.contents = decrypted], heap, "encrypted", FALSE))

\* a decryption that clears the flags before it has looked at the key
DecryptWithKey_eager(session, heap, parts, node, keyNum) ==
  IF keyNum.nan
  THEN Fail("invalid_key", DecryptedWrite(session, heap, parts, node, <<>>).session, heap)
  ELSE DecryptedWrite(session, heap, parts, node, XorDecode(Tail(node.contents), keyNum.val))

\* lines 360-376: the key parsed, the bytes decoded
DecryptWithKey(session, heap, parts, node, keyNum) ==
  IF keyNum.nan THEN Fail("invalid_key", session, heap)
  ELSE DecryptedWrite(session, heap, parts, node, XorDecode(Tail(node.contents), keyNum.val))

\* lines 348-358 and 386: the tests on the node
DecryptNode(session, heap, parts, node, key) ==
  IF node = NULL \/ node.type # "file" THEN Fail("no_such_file", session, heap)
  ELSE IF ~MetaFlag(node, heap, "encrypted") THEN Fail("not_encrypted", session, heap)
  ELSE IF node.contents = <<>> \/ Head(node.contents) # XorTag
       THEN Fail("unsupported_format", session, heap)
  ELSE DecryptWithKey(session, heap, parts, node, ParseInt(key, 10))

DecryptAt(session, heap, resolvedPath, key) ==
  DecryptNode(session, heap, Split(resolvedPath), getNode(session.fs, resolvedPath), key)

\* VFSEngine.decrypt(session, path, key)
decrypt(session, heap, path, key) ==
  DecryptAt(session, heap, resolvePath(session.currentPath, path), key)

----------------------------------------------------------------------------
(* Session Manager *)

\* JSON.stringify of a tree: every meta reference is written out by value
RECURSIVE Serialize(_, _)
Serialize(node, heap) ==
  LET meta == IF node.meta.kind = "none" THEN MetaNone ELSE MetaOwn(MetaOf(node, heap))
  IN IF node.type = "dir"
     THEN [type |-> "dir", meta |-> meta,
           children |-> [n \in DOMAIN ChildrenOf(node) |-> Serialize(node.children[n], heap)]]
     ELSE [node EXCEPT !.meta = meta]

\* VFSEngine.cloneFS(fs): JSON.parse(JSON.stringify(fs))
cloneFS(fs, heap) == [root |-> Serialize(fs.root, heap)]

server_room == <<"server_room">>
access_point(n) == <<"access_point_", <<"1", "2", "3", "4">>[n]>>

\* the meta a content author gives a security file: deleting it opens /sec/vault
\* to the players of access group 1
SecurityMeta ==
  [securityFile |-> TRUE, unlocksPaths |-> << <<"/", "sec", "/", "vault">> >>,
   targetUsers |-> {1}]

\* the campaign seed the session manager loads at start-up
campaignSeed ==
  [root |-> Dir(
     (server_room :> Dir(
        [n \in {access_point(k) : k \in 1..4} |->
           IF n = access_point(2)
           THEN Dir((<<"notes.txt">> :> File(<<"key is 42">>, MetaNone))
                    @@ (<<"security.key">> :> File(<<"token">>, MetaOwn(SecurityMeta))),
                    MetaNone)
           ELSE Dir((<<"notes.txt">> :> File(<<"key is 42">>, MetaNone)), MetaNone)],
        MetaNone))
     @@
     (<<"sec">> :> Dir(
        (<<"secret.bin">> :> File(<<XorTag, "6", "c", "6", "6", "6", "b", "6", "d">>,
                                  MetaOwn([encrypted |-> TRUE])))
        @@ (<<"vault">> :> Dir(<<>>, MetaNone)),
        MetaNone)),
     MetaNone)]

\* the session object createSession builds (username and createdAt are not modelled;
\* lastActivity counts the activity updates; meta holds the transient unlock record,
\* an absent session.meta and an empty one being the same partial function)
NewSession(sessionId, userId, heap) ==
  LET accessPointNum == (userId % 4) + 1
      branch == <<"/">> \o server_room \o <<"/">> \o access_point(accessPointNum)
  IN [id |-> sessionId,
      userId |-> userId,
      fs |-> cloneFS(campaignSeed, heap),
      currentPath |-> branch,
      commandHistory |-> <<>>,
      puzzleState |-> <<>>,
      aiState |-> [level |-> 0, status |-> "idle", challenge |-> NULL],
      frozen |-> FALSE,
      waitingRoom |-> TRUE,
      roundStarted |-> FALSE,
      unlockedPaths |-> {ROOT, <<"/">> \o server_room, branch},
      lastActivity |-> 0,
      meta |-> EmptyMeta]

\* the state the handlers work on: the registry, the shared meta objects, the store
World == [sessions |-> sessions, heap |-> sharedMeta, db |-> db]

Snapshot(session, heap) ==
  [filesystem |-> Serialize(session.fs.root, heap),
   current_path |-> session.currentPath,
   last_activity |-> session.lastActivity]

\* SessionManager.persistSession(sessionId)
persistSession(w, sessionId) ==
  IF sessionId \in DOMAIN w.sessions
  THEN [w EXCEPT !.db = (sessionId :> Snapshot(w.sessions[sessionId], w.heap)) @@ @]
  ELSE w

\* SessionManager.createSession(userId, username): the new id is the next uuid
createSession(w, sessionId, userId) ==
  LET session == NewSession(sessionId, userId, w.heap)
  IN [w EXCEPT !.sessions = (sessionId :> session) @@ @,
               !.db = (sessionId :> [filesystem |-> session.fs.root,
                                     current_path |-> session.currentPath,
                                     last_activity |-> 0]) @@ @]

\* SessionManager.destroySession(sessionId)
destroySession(w, sessionId) ==
  LET p == persistSession(w, sessionId)
  IN [p EXCEPT !.sessions = [i \in DOMAIN p.sessions \ {sessionId} |-> p.sessions[i]]]

\* the ids of a set of sessions in the registry's iteration (insertion) order
RECURSIVE Ascending(_)
Ascending(S) ==
  IF S = {} THEN <<>>
  ELSE LET m == CHOOSE x \in S : \A y \in S : x <= y IN <<m>> \o Ascending(S \ {m})

\* SessionManager.getAllSessions(), as the ids in iteration order
getAllSessions(w) == Ascending(DOMAIN w.sessions)

\* a lookup that finds no session of the user
getSessionsByUser_none(w, userId) == {}

\* SessionManager.getSessionsByUser(userId)
getSessionsByUser(w, userId) == { i \in DOMAIN w.sessions : w.sessions[i].userId = userId }

\* SessionManager.updateActivity(sessionId)
updateActivity(w, sessionId) ==
  IF sessionId \in DOMAIN w.sessions
  THEN [w EXCEPT !.sessions[sessionId].lastActivity = @ + 1]
  ELSE w

HistoryCapacity == 100

\* a history that is appended to and never evicted from
logCommand_unbounded(w, sessionId, command) ==
  IF sessionId \in DOMAIN w.sessions
  THEN [w EXCEPT !.sessions[sessionId].commandHistory = Append(@, command)]
  ELSE w

\* SessionManager.logCommand(sessionId, command, output): the in-memory history
logCommand(w, sessionId, command) ==
  IF sessionId \in DOMAIN w.sessions
  THEN LET h == Append(w.sessions[sessionId].commandHistory, command)
       IN [w EXCEPT !.sessions[sessionId].commandHistory =
                       IF Len(h) > HistoryCapacity THEN Tail(h) ELSE h]
  ELSE w

RECURSIVE SetRoundFlags(_, _, _)
SetRoundFlags(w, ids, started) ==
  IF ids = <<>> THEN w
  ELSE SetRoundFlags(
         persistSession([w EXCEPT !.sessions[Head(ids)].waitingRoom = ~started,
                                  !.sessions[Head(ids)].roundStarted = started],
                        Head(ids)),
         Tail(ids), started)

\* SessionManager.startRound() / endRound(), on every live session
startRound(w) == SetRoundFlags(w, getAllSessions(w), TRUE)
endRound(w) == SetRoundFlags(w, getAllSessions(w), FALSE)

----------------------------------------------------------------------------
(* Puzzle Engine *)

\* the meta objects of the loaded puzzle definitions: each is one object, which
\* every node an effect creates from it references
PuzzleMeta == << [locked |-> FALSE] >>

\* the puzzle definitions loadPuzzles reads from the content store
puzzles ==
  << [id |-> "decrypt_secret",
      triggers |-> << [type |-> "decrypt", path |-> <<"/", "sec", "/", "secret.bin">>] >>,
      validate |-> [kind |-> "key", expected |-> <<"4", "2">>],
      autoSolve |-> FALSE,
      onSuccess |-> << [action |-> "addFile", target |-> <<"/", "sec", "/", "flag.txt">>,
                        contents |-> <<"FLAG">>, meta |-> 1],
                       [action |-> "lock", target |-> <<"/", "sec", "/", "flag.txt">>] >>,
      onFail |-> << [action |-> "raiseAlert", level |-> 2] >>],
     [id |-> "open_notes",
      triggers |-> << [type |-> "open", path |-> <<"notes.txt">>] >>,
      validate |-> [kind |-> "none"],
      autoSolve |-> TRUE,
      onSuccess |-> << [action |-> "lock", target |-> <<"/", "sec">>],
                       [action |-> "raiseAlert", level |-> 0] >>,
      onFail |-> <<>>] >>

\* a step of a handler that may throw: the world it leaves and whether it threw
Step(ok, w) == [ok |-> ok, w |-> w]

\* the result of a VFS operation on session sid written back into the world
Apply(w, sid, r) ==
  Step(r.ok, [w EXCEPT !.sessions[sid] = r.session, !.heap = r.heap])

\* PuzzleEngine.executeEffect(session, effect); meta 0 and level 0 stand for an
\* absent effect.meta / effect.level
executeEffect(w, sid, effect) ==
  LET session == w.sessions[sid] IN
  CASE effect.action = "addFile" ->
         Apply(w, sid, addFile(session, w.heap, effect.target, effect.contents,
                               IF effect.meta = 0 THEN MetaOwn(EmptyMeta)
                               ELSE MetaShared(effect.meta)))
    [] effect.action = "decrypt" ->
         LET node == getNode(session.fs, effect.target) IN
         IF node # NULL /\ MetaFlag(node, w.heap, "encrypted")
         THEN LET r1 == SetMetaKey(node, w.heap, "encrypted", FALSE)
                  r2 == SetMetaKey(r1.node, r1.heap, "decrypted", TRUE)
              IN Step(TRUE, [w EXCEPT !.sessions[sid] =
                                         WithRoot(session, ReplaceAt(session.fs.root,
                                                  Split(effect.target), r2.node)),
                                      !.heap = r2.heap])
         ELSE Step(TRUE, w)
    [] effect.action = "unlock" ->
         Apply(w, sid, setLock(session, w.heap, effect.target, FALSE))
    [] effect.action = "lock" ->
         Apply(w, sid, setLock(session, w.heap, effect.target, TRUE))
    [] effect.action = "raiseAlert" ->
         Step(TRUE, [w EXCEPT !.sessions[sid].aiState =
                       [@ EXCEPT !.level = Min(@ + (IF effect.level = 0 THEN 1
                                                    ELSE effect.level), 10),
                                 !.status = IF @ = "idle" THEN "probing" ELSE @]])
    [] OTHER -> Step(TRUE, w)

\* the effects of a list in order, stopping at the first that throws
RECURSIVE RunEffects(_, _, _)
RunEffects(w, sid, effects) ==
  IF effects = <<>> THEN Step(TRUE, w)
  ELSE LET r == executeEffect(w, sid, Head(effects))
       IN IF r.ok THEN RunEffects(r.w, sid, Tail(effects)) ELSE r

\* PuzzleEngine.onSuccess(session, puzzle)
onSuccess(w, sid, puzzle) ==
  RunEffects([w EXCEPT !.sessions[sid].puzzleState =
                          (puzzle.id :> [solved |-> TRUE]) @@ @],
             sid, puzzle.onSuccess)

\* PuzzleEngine.onFailure(session, puzzle)
onFailure(w, sid, puzzle) == RunEffects(w, sid, puzzle.onFail)

\* a trigger handling that solves every puzzle, autoSolve or not
handleTrigger_always(w, sid, puzzle) == onSuccess(w, sid, puzzle)

\* PuzzleEngine.handleTrigger(session, puzzle)
handleTrigger(w, sid, puzzle) ==
  IF puzzle.autoSolve THEN onSuccess(w, sid, puzzle) ELSE Step(TRUE, w)

IsSolved(session, id) == id \in DOMAIN session.puzzleState /\ session.puzzleState[id].solved

RECURSIVE TriggerLoop(_, _, _, _, _)
TriggerLoop(w, sid, puzzle, triggers, match) ==
  IF triggers = <<>> THEN Step(TRUE, w)
  ELSE IF Head(triggers) = match
       THEN LET r == handleTrigger(w, sid, puzzle)
            IN IF r.ok THEN TriggerLoop(r.w, sid, puzzle, Tail(triggers), match) ELSE r
       ELSE TriggerLoop(w, sid, puzzle, Tail(triggers), match)

RECURSIVE CheckTriggerLoop(_, _, _, _)
CheckTriggerLoop(w, sid, ps, match) ==
  IF ps = <<>> THEN Step(TRUE, w)
  ELSE IF IsSolved(w.sessions[sid], Head(ps).id)
       THEN CheckTriggerLoop(w, sid, Tail(ps), match)
       ELSE LET r == TriggerLoop(w, sid, Head(ps), Head(ps).triggers, match)
            IN IF r.ok THEN CheckTriggerLoop(r.w, sid, Tail(ps), match) ELSE r

\* PuzzleEngine.checkTrigger(session, type, path)
checkTrigger(w, sid, type, path) ==
  CheckTriggerLoop(w, sid, puzzles, [type |-> type, path |-> path])

\* PuzzleEngine.validateSolution_never: a validation that accepts no key
validateSolution_never(puzzle, key) == FALSE

\* PuzzleEngine.validateSolution(session, puzzle, {key, filePath}) for the rules the
\* definitions use: none, and "key:" followed by the expected key
validateSolution(puzzle, key) ==
  CASE puzzle.validate.kind = "none" -> TRUE
    [] puzzle.validate.kind = "key" -> key = puzzle.validate.expected
    [] OTHER -> FALSE

\* the loop over a puzzle's triggers, r being what the triggers before left: a
\* rejected await ends the loop
RECURSIVE DecryptTriggerLoop(_, _, _, _, _, _)
DecryptTriggerLoop(r, sid, puzzle, triggers, filePath, key) ==
  IF ~r.ok \/ triggers = <<>> THEN r
  ELSE DecryptTriggerLoop(
         IF Head(triggers).type = "decrypt" /\ Head(triggers).path = filePath
         THEN (IF validateSolution(puzzle, key) THEN onSuccess(r.w, sid, puzzle)
               ELSE onFailure(r.w, sid, puzzle))
         ELSE r,
         sid, puzzle, Tail(triggers), filePath, key)

\* the loop over the puzzle definitions; puzzle.solved is a field no definition
\* has and nothing sets, so no puzzle is skipped
RECURSIVE CheckDecryptLoop(_, _, _, _, _)
CheckDecryptLoop(r, sid, ps, filePath, key) ==
  IF ~r.ok \/ ps = <<>> THEN r
  ELSE CheckDecryptLoop(
         DecryptTriggerLoop(r, sid, Head(ps), Head(ps).triggers, filePath, key),
         sid, Tail(ps), filePath, key)

\* PuzzleEngine.checkDecrypt(session, filePath, key)
checkDecrypt(w, sid, filePath, key) ==
  CheckDecryptLoop(Step(TRUE, w), sid, puzzles, filePath, key)

----------------------------------------------------------------------------
(* VFSEngine.delete.  The function awaits a dynamic import between reading  *)
(* the security file's meta and walking the registry, so it is modelled in  *)
(* its two halves: deleteLookup up to the await, deleteFinish after it.     *)

MetaHas(node, heap, key) == key \in DOMAIN MetaOf(node, heap)

\* lines 439-458: resolve, find parent and node, read the security meta
deleteLookup(session, heap, path) ==
  LET resolvedPath == resolvePath(session.currentPath, path)
      parts == Split(resolvedPath)
      name == IF parts = <<>> THEN <<"undefined">> ELSE parts[Len(parts)]
      parentParts == IF parts = <<>> THEN <<>> ELSE SubSeq(parts, 1, Len(parts) - 1)
      parentNode == Walk(session.fs.root, parentParts)
  IN IF parentNode = NULL \/ parentNode.type # "dir"
     THEN Fail("invalid_parent", session, heap)
     ELSE IF ~HasChild(parentNode, name) THEN Fail("not_found", session, heap)
     ELSE LET nodeToDelete == parentNode.children[name]
              security == /\ MetaFlag(nodeToDelete, heap, "securityFile")
                          /\ MetaHas(nodeToDelete, heap, "unlocksPaths")
              m == MetaOf(nodeToDelete, heap)
          IN Done([resolvedPath |-> resolvedPath, parentParts |-> parentParts,
                   name |-> name, security |-> security,
                   unlocksPaths |-> IF security THEN m.unlocksPaths ELSE <<>>,
                   targetUserGroups |-> IF security /\ "targetUsers" \in DOMAIN m
                                        THEN m.targetUsers ELSE {}],
                  session, heap)

\* the unlock path alone, without its ancestor prefixes
PathAndParents_pathOnly(unlockPath) == {unlockPath}

\* lines 474-485: one unlock path and all its ancestor prefixes
PathAndParents(unlockPath) ==
  LET parts == Split(unlockPath)
  IN {unlockPath} \cup { SlashJoin(SubSeq(parts, 1, i)) : i \in 1..Len(parts) }

\* an unlock that starts the set afresh from the paths being unlocked
UnlockAll_fresh(set, unlocksPaths) ==
  UNION { PathAndParents(unlocksPaths[i]) : i \in 1..Len(unlocksPaths) }

RECURSIVE UnlockAll(_, _)
UnlockAll(set, unlocksPaths) ==
  IF unlocksPaths = <<>> THEN set
  ELSE UnlockAll(set \cup PathAndParents(Head(unlocksPaths)), Tail(unlocksPaths))

\* the walk's step without the exclusion of the deleting session
UnlockFor_deleterToo(w, targetId, deleterId, ctx) ==
  LET targetSession == w.sessions[targetId]
      userGroup == targetSession.userId % 4
  IN IF userGroup \in ctx.targetUserGroups
     THEN [hit |-> TRUE,
           w |-> persistSession(
                   [w EXCEPT !.sessions[targetId] =
                      [k \in DOMAIN targetSession \cup {"unlockedPaths"} |->
                         IF k = "unlockedPaths"
                         THEN UnlockAll(IF "unlockedPaths" \in DOMAIN targetSession
                                        THEN targetSession.unlockedPaths ELSE {},
                                        ctx.unlocksPaths)
                         ELSE targetSession[k]]],
                   targetId)]
     ELSE [hit |-> FALSE, w |-> w]

\* lines 473-488: what the walk does to one session of the registry
UnlockFor(w, targetId, deleterId, ctx) ==
  LET targetSession == w.sessions[targetId]
      userGroup == targetSession.userId % 4
  IN IF userGroup \in ctx.targetUserGroups /\ targetSession.id # deleterId
     THEN [hit |-> TRUE,
           w |-> persistSession(
                   [w EXCEPT !.sessions[targetId] =
                      [k \in DOMAIN targetSession \cup {"unlockedPaths"} |->
                         IF k = "unlockedPaths"
                         THEN UnlockAll(IF "unlockedPaths" \in DOMAIN targetSession
                                        THEN targetSession.unlockedPaths ELSE {},
                                        ctx.unlocksPaths)
                         ELSE targetSession[k]]],
                   targetId)]
     ELSE [hit |-> FALSE, w |-> w]

\* lines 467-490: allSessions.forEach
RECURSIVE Propagate(_, _, _, _, _)
Propagate(w, ids, deleterId, ctx, unlockedSessionIds) ==
  IF ids = <<>> THEN [w |-> w, unlockedSessionIds |-> unlockedSessionIds]
  ELSE LET r == UnlockFor(w, Head(ids), deleterId, ctx)
       IN Propagate(r.w, Tail(ids), deleterId, ctx,
                    IF r.hit THEN Append(unlockedSessionIds, Head(ids))
                    ELSE unlockedSessionIds)

\* line 500: delete parentNode.children[name], on the parent found before the await
Unlink(session, ctx) ==
  LET parentNode == Walk(session.fs.root, ctx.parentParts)
  IN IF parentNode # NULL /\ HasChild(parentNode, ctx.name)
     THEN WithRoot(session, ReplaceAt(session.fs.root, ctx.parentParts,
                                      DropChild(parentNode, ctx.name)))
     ELSE session

\* lines 461-501, after the await: the registry walk, the transient record on the
\* deleting session and the unlink
deleteFinish(w, sid, ctx) ==
  IF ctx.security
  THEN LET p == Propagate(w, getAllSessions(w), sid, ctx, <<>>)
           marked == [p.w.sessions[sid] EXCEPT !.meta =
                        MetaPut(MetaPut(@, "recentlyUnlockedSessions", p.unlockedSessionIds),
                                "recentlyUnlockedPaths", ctx.unlocksPaths)]
       IN [p.w EXCEPT !.sessions[sid] = Unlink(marked, ctx)]
  ELSE [w EXCEPT !.sessions[sid] = Unlink(w.sessions[sid], ctx)]

----------------------------------------------------------------------------
(* Command Parser *)

RECURSIVE SplitWsAcc(_, _, _)
SplitWsAcc(s, cur, acc) ==
  IF s = <<>> THEN (IF cur = <<>> THEN acc ELSE Append(acc, cur))
  ELSE IF Head(s) = " "
       THEN SplitWsAcc(Tail(s), <<>>, IF cur = <<>> THEN acc ELSE Append(acc, cur))
       ELSE SplitWsAcc(Tail(s), Append(cur, Head(s)), acc)

\* trimmed.split(/\s+/)
SplitWs(s) == SplitWsAcc(s, <<>>, <<>>)

IsOption(token) == token # <<>> /\ Head(token) = "--"

RemoveAt(seq, i, n) == SubSeq(seq, 1, i - 1) \o SubSeq(seq, i + n, Len(seq))

\* an option loop that steps on after a removal, without its i--
RECURSIVE ParseOptions_skipping(_, _, _)
ParseOptions_skipping(args, i, options) ==
  IF i > Len(args) THEN [args |-> args, options |-> options]
  ELSE IF IsOption(args[i])
       THEN LET key == Tail(args[i]) IN
            IF i + 1 <= Len(args) /\ ~IsOption(args[i + 1])
            THEN ParseOptions_skipping(RemoveAt(args, i, 2), i + 1,
                   (key :> [isTrue |-> FALSE, value |-> args[i + 1]]) @@ options)
            ELSE ParseOptions_skipping(RemoveAt(args, i, 1), i + 1,
                   (key :> [isTrue |-> TRUE, value |-> <<>>]) @@ options)
       ELSE ParseOptions_skipping(args, i + 1, options)

\* the option loop of parse: i is the (1-based) index into args
RECURSIVE ParseOptions(_, _, _)
ParseOptions(args, i, options) ==
  IF i > Len(args) THEN [args |-> args, options |-> options]
  ELSE IF IsOption(args[i])
       THEN LET key == Tail(args[i]) IN
            IF i + 1 <= Len(args) /\ ~IsOption(args[i + 1])
            THEN ParseOptions(RemoveAt(args, i, 2), i,
                              (key :> [isTrue |-> FALSE, value |-> args[i + 1]]) @@ options)
            ELSE ParseOptions(RemoveAt(args, i, 1), i,
                              (key :> [isTrue |-> TRUE, value |-> <<>>]) @@ options)
       ELSE ParseOptions(args, i + 1, options)

\* CommandParser.parse(cmd)
parse(cmd) ==
  LET trimmed == Trim(cmd) IN
  IF trimmed = <<>> THEN NULL
  ELSE LET parts == SplitWs(trimmed)
           r == ParseOptions(Tail(parts), 1, <<>>)
       IN [type |-> "parsed", command |-> ToLowerCase(parts[1]),
           args |-> r.args, options |-> r.options, raw |-> trimmed]

\* args[i], an absent argument being the empty (falsy) string
Arg(args, i) == IF i <= Len(args) THEN args[i] ELSE <<>>

Result(output, error) == [output |-> output, error |-> error, clear |-> FALSE]

\* the try/catch of execute around one VFS call
Caught(w, sid, r, output) ==
  [w |-> [w EXCEPT !.sessions[sid] = r.session, !.heap = r.heap],
   result |-> IF r.ok THEN Result(output, "") ELSE Result(<<"Error">>, r.err)]

\* CommandParser.cat(session, path)
cat(w, sid, path) ==
  IF path = <<>> THEN [w |-> w, result |-> Result(<<"Usage">>, "")]
  ELSE LET file == readFile(w.sessions[sid], w.heap, path) IN
       IF ~file.ok THEN Caught(w, sid, file, <<>>)
       ELSE [w |-> checkTrigger(w, sid, "open", path).w, result |-> Result(file.val, "")]

\* CommandParser.hack(session, target)
hack(w, sid, target, rv) ==
  IF target = <<>> THEN [w |-> w, result |-> Result(<<"Usage">>, "")]
  ELSE [w |-> [w EXCEPT !.sessions[sid].aiState =
                          trigger(@, "suspicious_command", rv).ai],
        result |-> Result(<<"Attempting to hack">>, "")]

\* options.key: whether the option is there and its text, "true" being the text
\* of the boolean a valueless option holds
OptionKey(options) ==
  IF <<"key">> \notin DOMAIN options THEN [present |-> FALSE, text |-> <<>>]
  ELSE IF options[<<"key">>].isTrue THEN [present |-> TRUE, text |-> <<"t", "r", "u", "e">>]
       ELSE [present |-> TRUE, text |-> options[<<"key">>].value]

\* line 182, or the catch of execute when an effect of the puzzle threw
DecryptChecked(decrypted, c) ==
  [w |-> c.w,
   result |-> IF c.ok THEN Result(decrypted.val, "") ELSE Result(<<"Error">>, "effect")]

\* lines 177-180: VFSEngine.decrypt threw, or the puzzle check follows
Decrypted(w, sid, path, key, decrypted) ==
  IF ~decrypted.ok THEN Caught(w, sid, decrypted, <<>>)
  ELSE DecryptChecked(decrypted, checkDecrypt(Apply(w, sid, decrypted).w, sid, path, key))

\* CommandParser.decrypt(session, path, key)
decryptCommand(w, sid, path, key) ==
  IF path = <<>> \/ ~key.present THEN [w |-> w, result |-> Result(<<"Usage">>, "")]
  ELSE Decrypted(w, sid, path, key.text, decrypt(w.sessions[sid], w.heap, path, key.text))

SyncVerbs == { <<"help">>, <<"ls">>, <<"cd">>, <<"pwd">>, <<"cat">>, <<"open">>, <<"search">>,
               <<"decrypt">>, <<"scan">>, <<"sudo">>, <<"history">>, <<"clear">> }
DeleteVerbs == { <<"rm">>, <<"delete">> }

\* CommandParser.search(session, pattern): the hits the output lists
searchCommand(w, sid, pattern) ==
  IF pattern = <<>> THEN [w |-> w, result |-> Result(<<"Usage">>, "")]
  ELSE [w |-> w, result |-> Result(search(w.sessions[sid], pattern), "")]

\* CommandParser.execute(session, parsed), every verb but rm / delete
execute(w, sid, parsed, rv) ==
  LET session == w.sessions[sid]
      command == parsed.command
      args == parsed.args
  IN
  CASE parsed = NULL -> [w |-> w, result |-> Result(<<>>, "")]
    [] parsed # NULL /\ command = <<"help">> -> [w |-> w, result |-> Result(<<"help">>, "")]
    [] parsed # NULL /\ command = <<"ls">> ->
         LET r == list(session, w.heap, Arg(args, 1))
         IN Caught(w, sid, r, IF r.ok THEN {e.name : e \in r.val} ELSE {})
    [] parsed # NULL /\ command = <<"cd">> ->
         IF Arg(args, 1) = <<>>
         THEN [w |-> [w EXCEPT !.sessions[sid].currentPath = ROOT],
               result |-> Result(ROOT, "")]
         ELSE LET r == changeDirectory(session, w.heap, Arg(args, 1))
              IN Caught(w, sid, r, r.val)
    [] parsed # NULL /\ command = <<"pwd">> ->
         [w |-> w, result |-> Result(session.currentPath, "")]
    [] parsed # NULL /\ command \in { <<"cat">>, <<"open">> } -> cat(w, sid, Arg(args, 1))
    [] parsed # NULL /\ command = <<"search">> -> searchCommand(w, sid, Arg(args, 1))
    [] parsed # NULL /\ command = <<"decrypt">> ->
         decryptCommand(w, sid, Arg(args, 1), OptionKey(parsed.options))
    [] parsed # NULL /\ command = <<"scan">> ->
         [w |-> w, result |-> Result(<<session.aiState.status, session.aiState.level>>, "")]
    [] parsed # NULL /\ command = <<"sudo">> ->
         IF Arg(args, 1) = <<"hack">> THEN hack(w, sid, Arg(args, 2), rv)
         ELSE [w |-> w, result |-> Result(<<"Usage">>, "")]
    [] parsed # NULL /\ command = <<"history">> ->
         [w |-> w, result |-> Result(<<"history">>, "")]
    [] parsed # NULL /\ command = <<"clear">> ->
         [w |-> w, result |-> [Result(<<"clear">>, "") EXCEPT !.clear = TRUE]]
    [] parsed # NULL /\ command \notin SyncVerbs \cup DeleteVerbs ->
         [w |-> w, result |-> Result(<<"Command not found">>, "")]

----------------------------------------------------------------------------
(* The server: HTTP routes and socket handlers.  A handler is one step,    *)
(* except across the await of VFSEngine.delete's dynamic import.           *)

Commit(w) == /\ sessions' = w.sessions
             /\ sharedMeta' = w.heap
             /\ db' = w.db

\* a create or join that leaves the session's flags as they are
SyncRound_skip(w, sid) == w

\* lines 135-139, 151-155, 696-700: if the round is started globally, the session
\* is taken out of the waiting room and persisted
SyncRound(w, sid) ==
  IF globalRoundStarted
  THEN persistSession([w EXCEPT !.sessions[sid].waitingRoom = FALSE,
                                !.sessions[sid].roundStarted = TRUE], sid)
  ELSE w

\* existingSessions.sort((a, b) => b.lastActivity - a.lastActivity)[0]: the sort is
\* stable, so among the most recently active the first in registry order
latestSession(w, ids) ==
  CHOOSE i \in ids :
    \A j \in ids : \/ w.sessions[j].lastActivity < w.sessions[i].lastActivity
                   \/ (w.sessions[j].lastActivity = w.sessions[i].lastActivity /\ i <= j)

\* a client sends POST /api/session/create; the request waits for its turn
SessionCreateSend(userId) ==
  /\ Len(reqs) < MaxReqs
  /\ reqs' = Append(reqs, [userId |-> userId, state |-> "sent", sessionId |-> 0,
                           roundStarted |-> FALSE])
  /\ out' = [op |-> "request", userId |-> userId]
  /\ UNCHANGED <<sessions, nextId, globalRoundStarted, sharedMeta, db, sockets, inflight>>

\* POST /api/session/create: reuse the user's live session or create one
sessionCreate(w, userId, newId) ==
  LET existingSessions == getSessionsByUser(w, userId) IN
  IF existingSessions # {}
  THEN LET latest == latestSession(w, existingSessions)
       IN [w |-> SyncRound(w, latest), sessionId |-> latest, created |-> FALSE]
  ELSE [w |-> SyncRound(createSession(w, newId, userId), newId),
        sessionId |-> newId, created |-> TRUE]

SessionCreateHandle(r) ==
  /\ r \in 1..Len(reqs)
  /\ reqs[r].state = "sent"
  /\ LET h == sessionCreate(World, reqs[r].userId, nextId + 1) IN
     /\ Commit(h.w)
     /\ nextId' = IF h.created THEN nextId + 1 ELSE nextId
     /\ reqs' = [reqs EXCEPT ![r] = [@ EXCEPT !.state = "done", !.sessionId = h.sessionId,
                                              !.roundStarted = globalRoundStarted]]
     /\ out' = [op |-> "session_create", userId |-> reqs[r].userId,
                sessionId |-> h.sessionId, roundStarted |-> globalRoundStarted]
  /\ UNCHANGED <<globalRoundStarted, sockets, inflight>>

\* POST /api/auth/logout: destroys the HTTP login session only
AuthLogout(userId) ==
  /\ out' = [op |-> "auth_logout", userId |-> userId]
  /\ UNCHANGED <<sessions, nextId, globalRoundStarted, sharedMeta, db, sockets, reqs,
                 inflight>>

NoSocket == [connected |-> FALSE, session |-> 0, logoutTimer |-> FALSE]

\* io.on('connection'): a fresh socket object takes slot c
SocketConnect(c) ==
  /\ ~sockets[c].connected
  /\ sockets' = [sockets EXCEPT ![c] = [NoSocket EXCEPT !.connected = TRUE]]
  /\ out' = [op |-> "connection", socket |-> c]
  /\ UNCHANGED <<sessions, nextId, globalRoundStarted, sharedMeta, db, reqs, inflight>>

\* socket.on('join_session')
JoinSession(c, sessionId) ==
  /\ sockets[c].connected
  /\ IF sessionId \in DOMAIN sessions
     THEN /\ Commit(SyncRound(World, sessionId))
          /\ sockets' = [sockets EXCEPT ![c].session = sessionId]
          /\ out' = [op |-> "join_session", socket |-> c, sessionId |-> sessionId,
                     roundStarted |-> globalRoundStarted]
     ELSE /\ UNCHANGED <<sessions, sharedMeta, db, sockets>>
          /\ out' = [op |-> "join_session", socket |-> c, sessionId |-> 0,
                     roundStarted |-> FALSE]
  /\ UNCHANGED <<nextId, globalRoundStarted, reqs, inflight>>

\* socket.on('disconnect'): the client went away or the server closed the socket
Disconnect(c) ==
  /\ sockets[c].connected
  /\ Commit(IF sockets[c].session # 0 THEN persistSession(World, sockets[c].session)
            ELSE World)
  /\ sockets' = [sockets EXCEPT ![c].connected = FALSE, ![c].logoutTimer = FALSE]
  /\ out' = [op |-> "disconnect", socket |-> c, sessionId |-> sockets[c].session]
  /\ UNCHANGED <<nextId, globalRoundStarted, reqs, inflight>>

\* the setTimeout chain armed by shouldLogout: emit 'logout', then socket.disconnect(true)
LogoutTimer(c) ==
  /\ sockets[c].connected
  /\ sockets[c].logoutTimer
  /\ Disconnect(c)

\* socket 'command' handler, lines 774-876: everything after execute has returned
finishCommand(w, sid, command, parsed, result, rv) ==
  LET session == w.sessions[sid]
      notify == /\ parsed # NULL
                /\ parsed.command \in DeleteVerbs
                /\ "recentlyUnlockedSessions" \in DOMAIN session.meta
      w1 == IF notify THEN [w EXCEPT !.sessions[sid].meta = EmptyMeta] ELSE w
      w2 == updateActivity(logCommand(w1, sid, command), sid)
      isHack == parsed # NULL /\ parsed.command = <<"sudo">> /\ Arg(parsed.args, 1) = <<"hack">>
      t == trigger(w2.sessions[sid].aiState, "suspicious_command", rv)
  IN [w |-> IF isHack THEN [w2 EXCEPT !.sessions[sid].aiState = t.ai] ELSE w2,
      out |-> [op |-> "command", sessionId |-> sid, command |-> command,
               result |-> result,
               pathsUnlocked |-> IF notify THEN session.meta.recentlyUnlockedPaths ELSE <<>>,
               unlockedSessions |-> IF notify THEN session.meta.recentlyUnlockedSessions
                                    ELSE <<>>,
               aiMsg |-> IF isHack THEN t.msg ELSE NULL],
      logout |-> isHack /\ t.msg.shouldLogout]

Emit(c, f) ==
  /\ Commit(f.w)
  /\ out' = f.out
  /\ sockets' = IF f.logout /\ sockets[c].connected
                THEN [sockets EXCEPT ![c].logoutTimer = TRUE] ELSE sockets

\* a gate that lets every command through
isFrozen_never(session) == FALSE

\* line 751: if (session.frozen)
isFrozen(session) == session.frozen

\* socket.on('command'), up to the end or up to the await inside rm / delete
Command(c, command, rv) ==
  /\ sockets[c].connected
  /\ inflight[c] = NULL
  /\ sockets[c].session # 0 => Len(sessions[sockets[c].session].commandHistory) < MaxCommands
  /\ UNCHANGED <<nextId, globalRoundStarted, reqs>>
  /\ IF sockets[c].session = 0
     THEN /\ out' = [op |-> "error", socket |-> c, message |-> "not_connected"]
          /\ UNCHANGED <<sessions, sharedMeta, db, sockets, inflight>>
     ELSE LET sid == sockets[c].session
              session == sessions[sid]
              parsed == parse(command)
          IN
          IF isFrozen(session)
          THEN /\ out' = [op |-> "error", socket |-> c, message |-> "frozen"]
               /\ UNCHANGED <<sessions, sharedMeta, db, sockets, inflight>>
          ELSE IF parsed # NULL /\ parsed.command \in DeleteVerbs /\ Arg(parsed.args, 1) # <<>>
          THEN LET look == deleteLookup(session, sharedMeta, Arg(parsed.args, 1)) IN
               IF look.ok /\ look.val.security
               THEN /\ inflight' = [inflight EXCEPT ![c] =
                                      [type |-> "rm", sessionId |-> sid, command |-> command,
                                       parsed |-> parsed, ctx |-> look.val]]
                    /\ out' = [op |-> "await_import", socket |-> c, sessionId |-> sid]
                    /\ UNCHANGED <<sessions, sharedMeta, db, sockets>>
               ELSE /\ Emit(c, finishCommand(
                                 IF look.ok THEN deleteFinish(World, sid, look.val) ELSE World,
                                 sid, command, parsed,
                                 IF look.ok THEN Result(look.val.resolvedPath, "")
                                 ELSE Result(<<"Error">>, look.err), rv))
                    /\ UNCHANGED inflight
          ELSE IF parsed # NULL /\ parsed.command \in DeleteVerbs
          THEN /\ Emit(c, finishCommand(World, sid, command, parsed,
                                        Result(<<"Usage">>, ""), rv))
               /\ UNCHANGED inflight
          ELSE LET e == execute(World, sid, parsed, rv) IN
               /\ Emit(c, finishCommand(e.w, sid, command, parsed, e.result, rv))
               /\ UNCHANGED inflight

\* the rest of a player's rm / delete once the import has resolved
CommandResume(c) ==
  /\ inflight[c] # NULL
  /\ inflight[c].type = "rm"
  /\ LET f == inflight[c] IN
     Emit(c, finishCommand(deleteFinish(World, f.sessionId, f.ctx), f.sessionId,
                           f.command, f.parsed, Result(f.ctx.resolvedPath, ""), 0))
  /\ inflight' = [inflight EXCEPT ![c] = NULL]
  /\ UNCHANGED <<nextId, globalRoundStarted, reqs>>

----------------------------------------------------------------------------
(* Admin routes *)

NotFound(route) == [op |-> route, status |-> 404]

\* locked !== false / frozen !== false on a request body field
NotFalse(input) == input # "false"
BodyBooleans == {"true", "false", "absent"}

\* POST /api/admin/session/:id/push-file; meta is the body's meta, NULL when absent
AdminPushFile(sid, path, contents, meta) ==
  /\ IF sid \notin DOMAIN sessions
     THEN /\ out' = NotFound("push_file")
          /\ UNCHANGED <<sessions, sharedMeta, db>>
     ELSE LET r == addFile(sessions[sid], sharedMeta, path, contents,
                           MetaOwn(IF meta = NULL THEN EmptyMeta ELSE meta))
          IN IF r.ok
             THEN /\ Commit(persistSession(Apply(World, sid, r).w, sid))
                  /\ out' = [op |-> "push_file", status |-> 200, sessionId |-> sid,
                             path |-> path]
             ELSE /\ out' = [op |-> "push_file", status |-> 400, error |-> r.err]
                  /\ UNCHANGED <<sessions, sharedMeta, db>>
  /\ UNCHANGED <<nextId, globalRoundStarted, sockets, reqs, inflight>>

\* POST /api/admin/session/:id/rename
AdminRename(sid, path, newName) ==
  /\ IF sid \notin DOMAIN sessions
     THEN /\ out' = NotFound("rename")
          /\ UNCHANGED <<sessions, sharedMeta, db>>
     ELSE LET r == rename(sessions[sid], sharedMeta, path, newName)
          IN /\ IF r.ok THEN Commit(persistSession(Apply(World, sid, r).w, sid))
                ELSE UNCHANGED <<sessions, sharedMeta, db>>
             /\ out' = [op |-> "rename", status |-> IF r.ok THEN 200 ELSE 400,
                        sessionId |-> sid, path |-> path, newName |-> newName,
                        newPath |-> r.val, error |-> r.err]
  /\ UNCHANGED <<nextId, globalRoundStarted, sockets, reqs, inflight>>

\* POST /api/admin/session/:id/move
AdminMove(sid, sourcePath, targetPath) ==
  /\ IF sid \notin DOMAIN sessions
     THEN /\ out' = NotFound("move")
          /\ UNCHANGED <<sessions, sharedMeta, db>>
     ELSE LET r == move(sessions[sid], sharedMeta, sourcePath, targetPath)
          IN /\ IF r.ok THEN Commit(persistSession(Apply(World, sid, r).w, sid))
                ELSE UNCHANGED <<sessions, sharedMeta, db>>
             /\ out' = [op |-> "move", status |-> IF r.ok THEN 200 ELSE 400,
                        sessionId |-> sid, sourcePath |-> sourcePath,
                        targetPath |-> targetPath, newPath |-> r.val, error |-> r.err]
  /\ UNCHANGED <<nextId, globalRoundStarted, sockets, reqs, inflight>>

\* the forEach of bulk push-file: node.meta is the one req.body.meta object (metaRef)
\* or, when the body has none, writeFile's default {} made afresh by each call
RECURSIVE BulkPushLoop(_, _, _, _, _, _)
BulkPushLoop(w, ids, path, contents, metaRef, results) ==
  IF ids = <<>> THEN [w |-> w, results |-> results]
  ELSE LET sid == Head(ids)
           r == writeFile(w.sessions[sid], w.heap, path, contents,
                          IF metaRef = 0 THEN MetaOwn(EmptyMeta) ELSE MetaShared(metaRef))
       IN BulkPushLoop(IF r.ok THEN persistSession(Apply(w, sid, r).w, sid) ELSE w,
                       Tail(ids), path, contents, metaRef,
                       Append(results, [sessionId |-> sid, success |-> r.ok]))

\* POST /api/admin/bulk/push-file
AdminBulkPushFile(path, contents, meta) ==
  /\ meta # NULL => Len(sharedMeta) < Len(PuzzleMeta) + MaxBulkMeta
  /\ LET heap == IF meta = NULL THEN sharedMeta ELSE Append(sharedMeta, meta)
         b == BulkPushLoop([World EXCEPT !.heap = heap], getAllSessions(World), path,
                           contents, IF meta = NULL THEN 0 ELSE Len(heap), <<>>)
     IN /\ Commit(b.w)
        /\ out' = [op |-> "bulk_push_file", status |-> 200, results |-> b.results]
  /\ UNCHANGED <<nextId, globalRoundStarted, sockets, reqs, inflight>>

\* POST /api/admin/session/:id/lock
AdminLock(sid, path, locked) ==
  /\ IF sid \notin DOMAIN sessions
     THEN /\ out' = NotFound("lock")
          /\ UNCHANGED <<sessions, sharedMeta, db>>
     ELSE LET r == setLock(sessions[sid], sharedMeta, path, NotFalse(locked))
          IN IF r.ok
             THEN /\ Commit(persistSession(Apply(World, sid, r).w, sid))
                  /\ out' = [op |-> "lock", status |-> 200, sessionId |-> sid,
                             path |-> path, locked |-> NotFalse(locked)]
             ELSE /\ out' = [op |-> "lock", status |-> 400, error |-> r.err]
                  /\ UNCHANGED <<sessions, sharedMeta, db>>
  /\ UNCHANGED <<nextId, globalRoundStarted, sockets, reqs, inflight>>

RECURSIVE BulkLockLoop(_, _, _, _, _)
BulkLockLoop(w, ids, path, locked, results) ==
  IF ids = <<>> THEN [w |-> w, results |-> results]
  ELSE LET sid == Head(ids)
           r == setLock(w.sessions[sid], w.heap, path, locked)
       IN BulkLockLoop(IF r.ok THEN persistSession(Apply(w, sid, r).w, sid) ELSE w,
                       Tail(ids), path, locked,
                       Append(results, [sessionId |-> sid, success |-> r.ok]))

\* POST /api/admin/bulk/lock
AdminBulkLock(path, locked) ==
  /\ LET b == BulkLockLoop(World, getAllSessions(World), path, NotFalse(locked), <<>>)
     IN /\ Commit(b.w)
        /\ out' = [op |-> "bulk_lock", status |-> 200, results |-> b.results]
  /\ UNCHANGED <<nextId, globalRoundStarted, sockets, reqs, inflight>>

\* POST /api/admin/session/:id/freeze
AdminFreeze(sid, frozen) ==
  /\ IF sid \notin DOMAIN sessions
     THEN /\ out' = NotFound("freeze")
          /\ UNCHANGED sessions
     ELSE /\ sessions' = [sessions EXCEPT ![sid].frozen = NotFalse(frozen)]
          /\ out' = [op |-> "freeze", status |-> 200, sessionId |-> sid,
                     frozen |-> NotFalse(frozen)]
  /\ UNCHANGED <<nextId, globalRoundStarted, sharedMeta, db, sockets, reqs, inflight>>

RECURSIVE BulkFreezeLoop(_, _, _)
BulkFreezeLoop(w, ids, frozen) ==
  IF ids = <<>> THEN w
  ELSE BulkFreezeLoop(persistSession([w EXCEPT !.sessions[Head(ids)].frozen = frozen],
                                     Head(ids)),
                      Tail(ids), frozen)

\* POST /api/admin/bulk/freeze: stores the body's frozen as it is (absent is falsy)
AdminBulkFreeze(frozen) ==
  /\ Commit(BulkFreezeLoop(World, getAllSessions(World), frozen = "true"))
  /\ out' = [op |-> "bulk_freeze", status |-> 200, frozen |-> frozen]
  /\ UNCHANGED <<nextId, globalRoundStarted, sockets, reqs, inflight>>

\* POST /api/admin/session/:id/ai
AdminAI(sid, level, status) ==
  /\ IF sid \notin DOMAIN sessions
     THEN /\ out' = NotFound("ai")
          /\ UNCHANGED sessions
     ELSE /\ sessions' = [sessions EXCEPT ![sid].aiState = setState(@, level, status)]
          /\ out' = [op |-> "ai", status |-> 200, sessionId |-> sid,
                     request |-> [level |-> level, status |-> status],
                     aiState |-> setState(sessions[sid].aiState, level, status)]
  /\ UNCHANGED <<nextId, globalRoundStarted, sharedMeta, db, sockets, reqs, inflight>>

Admin == 0

\* POST /api/admin/session/:id/delete, lines 487-527: after VFSEngine.delete returned
finishAdminDelete(w, sid, path) ==
  LET session == w.sessions[sid]
      notify == "recentlyUnlockedSessions" \in DOMAIN session.meta
      w1 == persistSession(w, sid)
  IN [w |-> IF notify THEN [w1 EXCEPT !.sessions[sid].meta = EmptyMeta] ELSE w1,
      out |-> [op |-> "delete", status |-> 200, sessionId |-> sid, path |-> path,
               pathsUnlocked |-> IF notify THEN session.meta.recentlyUnlockedPaths ELSE <<>>,
               unlockedSessions |-> IF notify THEN session.meta.recentlyUnlockedSessions
                                    ELSE <<>>]]

\* POST /api/admin/session/:id/delete, up to the end or up to the await
AdminDelete(sid, path) ==
  /\ inflight[Admin] = NULL
  /\ UNCHANGED <<nextId, globalRoundStarted, sockets, reqs>>
  /\ IF sid \notin DOMAIN sessions
     THEN /\ out' = NotFound("delete")
          /\ UNCHANGED <<sessions, sharedMeta, db, inflight>>
     ELSE LET look == deleteLookup(sessions[sid], sharedMeta, path) IN
          IF ~look.ok
          THEN /\ out' = [op |-> "delete", status |-> 400, error |-> look.err]
               /\ UNCHANGED <<sessions, sharedMeta, db, inflight>>
          ELSE IF look.val.security
          THEN /\ inflight' = [inflight EXCEPT ![Admin] =
                                 [type |-> "delete", sessionId |-> sid, path |-> path,
                                  ctx |-> look.val]]
               /\ out' = [op |-> "await_import", socket |-> Admin, sessionId |-> sid]
               /\ UNCHANGED <<sessions, sharedMeta, db>>
          ELSE LET f == finishAdminDelete(deleteFinish(World, sid, look.val), sid, path)
               IN /\ Commit(f.w)
                  /\ out' = f.out
                  /\ UNCHANGED inflight

\* the rest of the admin delete once the import has resolved
AdminDeleteResume ==
  /\ inflight[Admin] # NULL
  /\ LET d == inflight[Admin]
         f == finishAdminDelete(deleteFinish(World, d.sessionId, d.ctx), d.sessionId, d.path)
     IN /\ Commit(f.w)
        /\ out' = f.out
  /\ inflight' = [inflight EXCEPT ![Admin] = NULL]
  /\ UNCHANGED <<nextId, globalRoundStarted, sockets, reqs>>

\* POST /api/admin/round/start
RoundStart ==
  /\ globalRoundStarted' = TRUE
  /\ Commit(startRound(World))
  /\ out' = [op |-> "round_start", count |-> Cardinality(DOMAIN sessions)]
  /\ UNCHANGED <<nextId, sockets, reqs, inflight>>

\* POST /api/admin/round/end
RoundEnd ==
  /\ globalRoundStarted' = FALSE
  /\ Commit(endRound(World))
  /\ out' = [op |-> "round_end", count |-> Cardinality(DOMAIN sessions)]
  /\ UNCHANGED <<nextId, sockets, reqs, inflight>>

----------------------------------------------------------------------------
(* Calls of the AI engine and of the puzzle engine's effect evaluator on a  *)
(* live session                                                            *)

AITrigger(sid, eventType, rv) ==
  /\ sid \in DOMAIN sessions
  /\ LET t == trigger(sessions[sid].aiState, eventType, rv) IN
     /\ sessions' = [sessions EXCEPT ![sid].aiState = t.ai]
     /\ out' = [op |-> "trigger", sessionId |-> sid, eventType |-> eventType, msg |-> t.msg]
  /\ UNCHANGED <<nextId, globalRoundStarted, sharedMeta, db, sockets, reqs, inflight>>

AIIssueChallenge(sid, i) ==
  /\ sid \in DOMAIN sessions
  /\ LET t == issueChallenge(sessions[sid].aiState, i) IN
     /\ sessions' = [sessions EXCEPT ![sid].aiState = t.ai]
     /\ out' = [op |-> "issueChallenge", sessionId |-> sid, msg |-> t.msg]
  /\ UNCHANGED <<nextId, globalRoundStarted, sharedMeta, db, sockets, reqs, inflight>>

AIValidateChallenge(sid, answer) ==
  /\ sid \in DOMAIN sessions
  /\ LET t == validateChallenge(sessions[sid].aiState, answer) IN
     /\ sessions' = [sessions EXCEPT ![sid].aiState = t.ai]
     /\ out' = [op |-> "validateChallenge", sessionId |-> sid, answer |-> answer,
                res |-> t.res]
  /\ UNCHANGED <<nextId, globalRoundStarted, sharedMeta, db, sockets, reqs, inflight>>

PuzzleExecuteEffect(sid, effect) ==
  /\ sid \in DOMAIN sessions
  /\ LET r == executeEffect(World, sid, effect) IN
     /\ Commit(r.w)
     /\ out' = [op |-> "executeEffect", sessionId |-> sid, effect |-> effect, ok |-> r.ok]
  /\ UNCHANGED <<nextId, globalRoundStarted, sockets, reqs, inflight>>

\* SessionManager.logCommand called for a session id
LogCommand(sid, command) ==
  /\ Commit(logCommand(World, sid, command))
  /\ out' = [op |-> "logCommand", sessionId |-> sid, command |-> command]
  /\ UNCHANGED <<nextId, globalRoundStarted, sockets, reqs, inflight>>

\* VFSEngine.addFile / VFSEngine.writeFile called on a live session
VFSWriteFile(sid, path, contents) ==
  /\ sid \in DOMAIN sessions
  /\ LET r == writeFile(sessions[sid], sharedMeta, path, contents, MetaOwn(EmptyMeta)) IN
     /\ Commit(Apply(World, sid, r).w)
     /\ out' = [op |-> "writeFile", sessionId |-> sid, path |-> path,
                contents |-> contents, ok |-> r.ok, val |-> r.val]
  /\ UNCHANGED <<nextId, globalRoundStarted, sockets, reqs, inflight>>

\* VFSEngine.move called on a live session
VFSMove(sid, sourcePath, targetPath) ==
  /\ sid \in DOMAIN sessions
  /\ LET r == move(sessions[sid], sharedMeta, sourcePath, targetPath) IN
     /\ Commit(Apply(World, sid, r).w)
     /\ out' = [op |-> "move", sessionId |-> sid, sourcePath |-> sourcePath,
                targetPath |-> targetPath, ok |-> r.ok, val |-> r.val]
  /\ UNCHANGED <<nextId, globalRoundStarted, sockets, reqs, inflight>>

\* VFSEngine.delete called on a live session and run to its end
VFSDelete(w, sid, look) ==
  IF look.ok THEN Step(TRUE, deleteFinish(w, sid, look.val)) ELSE Apply(w, sid, look)

\* one call of a VFS operation on a live session; arg is the key of decrypt, the
\* contents of addFile, the new name of rename, the target of move
VFSResult(session, heap, op, path, arg) ==
  CASE op = "list"            -> list(session, heap, path)
    [] op = "readFile"        -> readFile(session, heap, path)
    [] op = "changeDirectory" -> changeDirectory(session, heap, path)
    [] op = "decrypt"         -> decrypt(session, heap, path, arg)
    [] op = "addFile"         -> addFile(session, heap, path, arg,
                                         MetaOwn([encrypted |-> TRUE]))
    [] op = "setLock"         -> setLock(session, heap, path, TRUE)
    [] op = "rename"          -> rename(session, heap, path, arg)
    [] op = "move"            -> move(session, heap, path, arg)
    [] op = "delete"          -> deleteLookup(session, heap, path)

VFSCall(sid, op, path, arg) ==
  /\ sid \in DOMAIN sessions
  /\ out.op = "vfs" => out.n < MaxCalls
  /\ LET r == VFSResult(sessions[sid], sharedMeta, op, path, arg) IN
     /\ Commit(IF op = "delete" THEN VFSDelete(World, sid, r).w ELSE Apply(World, sid, r).w)
     /\ out' = [op |-> "vfs", call |-> op, sessionId |-> sid, ok |-> r.ok, err |-> r.err,
                n |-> IF out.op = "vfs" THEN out.n + 1 ELSE 1]
  /\ UNCHANGED <<nextId, globalRoundStarted, sockets, reqs, inflight>>

\* PuzzleEngine.checkTrigger called on a live session
PuzzleCheckTrigger(sid, type, path) ==
  /\ sid \in DOMAIN sessions
  /\ LET r == checkTrigger(World, sid, type, path) IN
     /\ Commit(r.w)
     /\ out' = [op |-> "checkTrigger", sessionId |-> sid, type |-> type, path |-> path,
                ok |-> r.ok]
  /\ UNCHANGED <<nextId, globalRoundStarted, sockets, reqs, inflight>>

----------------------------------------------------------------------------
(* The initial state: an empty registry, the puzzle definitions loaded *)

Init ==
  /\ sessions = <<>>
  /\ nextId = 0
  /\ globalRoundStarted = FALSE
  /\ sharedMeta = PuzzleMeta
  /\ db = <<>>
  /\ sockets = [c \in 1..MaxSockets |-> NoSocket]
  /\ reqs = <<>>
  /\ inflight = [h \in 0..MaxSockets |-> NULL]
  /\ out = [op |-> "init"]

----------------------------------------------------------------------------
(* SpecAI: one player's session under every operation that touches aiState *)

HackLine == <<"sudo", " ", "hack", " ", "mainframe">>

NextAI ==
  \/ (reqs = <<>> /\ SessionCreateSend(1))
  \/ \E r \in 1..MaxReqs : SessionCreateHandle(r)
  \/ SocketConnect(1)
  \/ \E sid \in DOMAIN sessions : JoinSession(1, sid)
  \/ \E rv \in RandomVariations : Command(1, HackLine, rv)
  \/ LogoutTimer(1)
  \/ \E sid \in DOMAIN sessions, e \in EventTypes, rv \in RandomVariations :
       AITrigger(sid, e, rv)
  \/ \E sid \in DOMAIN sessions, i \in 1..Len(challenges) : AIIssueChallenge(sid, i)
  \/ \E sid \in DOMAIN sessions, a \in Answers : AIValidateChallenge(sid, a)
  \/ \E sid \in DOMAIN sessions, l \in 0..MaxRaise :
       PuzzleExecuteEffect(sid, [action |-> "raiseAlert", level |-> l])
  \/ \E sid \in DOMAIN sessions, l \in -2..MaxSetLevel, st \in StatusInputs :
       AdminAI(sid, l, st)

SpecAI == Init /\ [][NextAI]_vars

----------------------------------------------------------------------------
(* SpecLock: one player's session under lock changes and directory commands *)

\* a command line: the verb and, when there is one, its argument
Line(verb, arg) == IF arg = <<>> THEN <<verb>> ELSE <<verb, " ">> \o arg

P_server_room == <<"/", "server_room">>
P_access_point_2 == <<"/", "server_room", "/", "access_point_", "2">>
P_sec == <<"/", "sec">>
P_vault == <<"/", "sec", "/", "vault">>

LockPaths == {P_server_room, P_access_point_2, P_sec}
LockLines == { Line("ls", <<>>), Line("ls", P_server_room), Line("ls", P_vault),
               Line("cd", <<".", ".">>) }

NextLock ==
  \/ (reqs = <<>> /\ SessionCreateSend(1))
  \/ \E r \in 1..MaxReqs : SessionCreateHandle(r)
  \/ SocketConnect(1)
  \/ \E sid \in DOMAIN sessions : JoinSession(1, sid)
  \/ \E line \in LockLines : Command(1, line, 0)
  \/ \E sid \in DOMAIN sessions, p \in LockPaths, l \in BodyBooleans : AdminLock(sid, p, l)
  \/ \E p \in LockPaths, l \in BodyBooleans : AdminBulkLock(p, l)
  \/ \E sid \in DOMAIN sessions, a \in {"lock", "unlock"} :
       PuzzleExecuteEffect(sid, [action |-> a, target |-> P_sec])

SpecLock == Init /\ [][NextLock]_vars

----------------------------------------------------------------------------
(* SpecShare: two players' sessions under pushed files, puzzle files and locks *)

P_drop == <<"/", "sec", "/", "drop.txt">>
P_flag == <<"/", "sec", "/", "flag.txt">>

\* the meta of a push-file request body: none, or an object
PushMetas == {NULL, [hint |-> TRUE]}

\* the addFile effect of the decrypt_secret puzzle
AddFlagEffect == puzzles[1].onSuccess[1]

NextShare ==
  \/ \E u \in {1, 2} : (Len(reqs) < 2 /\ (\A r \in 1..Len(reqs) : reqs[r].userId # u)
                        /\ SessionCreateSend(u))
  \/ \E r \in 1..MaxReqs : SessionCreateHandle(r)
  \/ \E m \in PushMetas : AdminBulkPushFile(P_drop, <<"drop">>, m)
  \/ \E sid \in DOMAIN sessions, l \in {"true", "false"} : AdminLock(sid, P_drop, l)
  \/ \E sid \in DOMAIN sessions : PuzzleExecuteEffect(sid, AddFlagEffect)
  \/ \E sid \in DOMAIN sessions, a \in {"lock", "unlock"} :
       PuzzleExecuteEffect(sid, [action |-> a, target |-> P_flag])

SpecShare == Init /\ [][NextShare]_vars

----------------------------------------------------------------------------
(* SpecUnlock: three players, two of one access group, deleting the security *)
(* file of the seed by rm and by the admin delete route                      *)

P_key == <<"/", "server_room", "/", "access_point_", "2", "/", "security.key">>

\* users 1 and 5 are of access group 1, user 2 of group 2; their create
\* requests arrive and are served one after the other
UnlockUsers == <<1, 5, 2>>

NextUnlock ==
  \/ (Len(reqs) < Len(UnlockUsers) /\ SessionCreateSend(UnlockUsers[Len(reqs) + 1]))
  \/ \E r \in 1..Len(reqs) : ((\A q \in 1..(r - 1) : reqs[q].state = "done")
                              /\ SessionCreateHandle(r))
  \/ SocketConnect(1)
  \/ \E sid \in DOMAIN sessions : JoinSession(1, sid)
  \/ Command(1, Line("rm", P_key), 0)
  \/ CommandResume(1)
  \/ \E sid \in DOMAIN sessions : AdminDelete(sid, P_key)
  \/ AdminDeleteResume

SpecUnlock == Init /\ [][NextUnlock]_vars

----------------------------------------------------------------------------
(* SpecCreate: create requests of two users, in any order of arrival and of  *)
(* service, while the round is started and ended                            *)

CdUp == Line("cd", <<".", ".">>)

NextCreate ==
  \/ \E u \in {1, 2} : SessionCreateSend(u)
  \/ \E r \in 1..MaxReqs : SessionCreateHandle(r)
  \/ RoundStart
  \/ RoundEnd

SpecCreate == Init /\ [][NextCreate]_vars

----------------------------------------------------------------------------
(* SpecSession: two players of one access group from the waiting room to    *)
(* the round, with commands, disconnects and logouts                        *)

SessionUsers == <<1, 5>>

NextSession ==
  \/ (Len(reqs) < Len(SessionUsers) /\ SessionCreateSend(SessionUsers[Len(reqs) + 1]))
  \/ \E r \in 1..Len(reqs) : ((\A q \in 1..(r - 1) : reqs[q].state = "done")
                              /\ SessionCreateHandle(r))
  \/ SocketConnect(1)
  \/ \E sid \in DOMAIN sessions : JoinSession(1, sid)
  \/ \E line \in {CdUp, Line("rm", P_key)} : Command(1, line, 0)
  \/ CommandResume(1)
  \/ Disconnect(1)
  \/ \E u \in {1, 5} : AuthLogout(u)
  \/ RoundStart
  \/ RoundEnd

SpecSession == Init /\ [][NextSession]_vars

----------------------------------------------------------------------------
(* SpecFreeze: one player's commands, one of them suspended in its delete,  *)
(* while the administrator freezes and unfreezes                            *)

FreezeLines == {CdUp, Line("rm", P_key)}

NextFreeze ==
  \/ (reqs = <<>> /\ SessionCreateSend(1))
  \/ \E r \in 1..MaxReqs : SessionCreateHandle(r)
  \/ SocketConnect(1)
  \/ \E sid \in DOMAIN sessions : JoinSession(1, sid)
  \/ \E line \in FreezeLines : Command(1, line, 0)
  \/ CommandResume(1)
  \/ \E sid \in DOMAIN sessions, f \in BodyBooleans : AdminFreeze(sid, f)
  \/ \E f \in BodyBooleans : AdminBulkFreeze(f)

SpecFreeze == Init /\ [][NextFreeze]_vars

----------------------------------------------------------------------------
(* SpecCd: one player changing directory with relative and absolute targets *)

CdLines == { Line("cd", <<>>), CdUp, Line("cd", <<".">>),
             Line("cd", <<"access_point_", "2">>), Line("cd", <<"/", "sec">>),
             Line("cd", <<"/", "server_room", "/">>), Line("cd", P_vault) }

NextCd ==
  \/ (reqs = <<>> /\ SessionCreateSend(1))
  \/ \E r \in 1..MaxReqs : SessionCreateHandle(r)
  \/ SocketConnect(1)
  \/ \E sid \in DOMAIN sessions : JoinSession(1, sid)
  \/ \E line \in CdLines : Command(1, line, 0)

SpecCd == Init /\ [][NextCd]_vars

----------------------------------------------------------------------------
(* SpecResolve: VFSEngine.resolvePath applied to every current path and     *)
(* every target of at most MaxPathLen characters                            *)

\* the strings of at most n characters over an alphabet
Strings(alphabet, n) == UNION { [1..k -> alphabet] : k \in 0..n }

CurrentPaths == { cp \in Strings({"/", "a", "b"}, MaxPathLen) : cp # <<>> /\ cp[1] = "/" }
TargetPaths == Strings({"/", ".", "c"}, MaxPathLen) \ {<<>>}

\* one call on the engine as it is after start-up
ResolvePathCall(cp, tp) ==
  /\ out.op = "init"
  /\ out' = [op |-> "resolvePath", currentPath |-> cp, targetPath |-> tp,
             result |-> resolvePath(cp, tp)]
  /\ UNCHANGED <<sessions, nextId, globalRoundStarted, sharedMeta, db, sockets, reqs,
                 inflight>>

NextResolve == \E cp \in CurrentPaths, tp \in TargetPaths : ResolvePathCall(cp, tp)

SpecResolve == Init /\ [][NextResolve]_vars

----------------------------------------------------------------------------
(* SpecList: two players of one access group listing directories while the  *)
(* security file is deleted; every request that can be served is served     *)

ListLines == { Line("ls", <<>>), Line("ls", P_server_room), Line("ls", ROOT),
               Line("rm", P_key) }

NextList ==
  \/ (Len(reqs) < Len(SessionUsers) /\ SessionCreateSend(SessionUsers[Len(reqs) + 1]))
  \/ \E r \in 1..Len(reqs) : ((\A q \in 1..(r - 1) : reqs[q].state = "done")
                              /\ SessionCreateHandle(r))
  \/ SocketConnect(1)
  \/ \E sid \in DOMAIN sessions : JoinSession(1, sid)
  \/ \E line \in ListLines : Command(1, line, 0)
  \/ CommandResume(1)

SpecList == Init /\ [][NextList]_vars /\ WF_vars(NextList)

----------------------------------------------------------------------------
(* SpecDecrypt: one player decrypting the puzzle's file with the right key, *)
(* a wrong key, a valueless key option, and by a relative path              *)

P_secret == <<"/", "sec", "/", "secret.bin">>

DecryptLine(path, key) == <<"decrypt", " ">> \o path \o <<" ", "--", "key">> \o key

DecryptRight == DecryptLine(P_secret, <<" ", "4", "2">>)

DecryptLines == { DecryptRight,
                  DecryptLine(P_secret, <<" ", "7">>),
                  DecryptLine(P_secret, <<" ", "0", "4", "2">>),
                  DecryptLine(P_secret, <<>>),
                  DecryptLine(<<"secret.bin">>, <<" ", "4", "2">>),
                  Line("cd", P_sec) }

NextDecrypt ==
  \/ (reqs = <<>> /\ SessionCreateSend(1))
  \/ \E r \in 1..MaxReqs : SessionCreateHandle(r)
  \/ SocketConnect(1)
  \/ \E sid \in DOMAIN sessions : JoinSession(1, sid)
  \/ \E line \in DecryptLines : Command(1, line, 0)
  \/ RoundStart

SpecDecrypt == Init /\ [][NextDecrypt]_vars

----------------------------------------------------------------------------
(* SpecXor: VFSEngine.decrypt on a file holding the tagged hex encoding of  *)
(* a plaintext under a key, decrypted with that key and with other keys     *)

PlainBytes == {0, 65, 70, 255}
Plaintexts == Strings(PlainBytes, MaxPlainLen)
XorKeys == {0, 42, 255}
DecryptKeys == XorKeys \cup {-1, 7, 256, 300}

\* the two hex digits of a byte, and the encoding of each (byte XOR k) on 8 bits
Hex2(n) == <<HexLower[(n \div 16) + 1], HexLower[(n % 16) + 1]>>

RECURSIVE Encrypt(_, _)
Encrypt(plain, k) ==
  IF plain = <<>> THEN <<>> ELSE Hex2(XorBits(Head(plain), k, 8)) \o Encrypt(Tail(plain), k)

\* the decimal text of an integer, as a player types it after --key
RECURSIVE Decimal(_)
Decimal(n) ==
  IF n < 0 THEN <<"-">> \o Decimal(0 - n)
  ELSE IF n < 10 THEN <<DecDigits[n + 1]>>
       ELSE Decimal(n \div 10) \o <<DecDigits[(n % 10) + 1]>>

DecryptCall(plain, k, key) ==
  /\ out.op = "init"
  /\ LET s0 == NewSession(1, 1, sharedMeta)
         put == writeFile(s0, sharedMeta, P_secret, <<XorTag>> \o Encrypt(plain, k),
                          MetaOwn([encrypted |-> TRUE]))
         r == decrypt(put.session, put.heap, P_secret, Decimal(key))
         node == getNode(r.session.fs, P_secret)
     IN out' = [op |-> "decrypt", plain |-> plain, k |-> k, key |-> key,
                ok |-> r.ok, val |-> r.val, contents |-> node.contents]
  /\ UNCHANGED <<sessions, nextId, globalRoundStarted, sharedMeta, db, sockets, reqs, inflight>>

NextXor == \E plain \in Plaintexts, k \in XorKeys, key \in DecryptKeys : DecryptCall(plain, k, key)

SpecXor == Init /\ [][NextXor]_vars

----------------------------------------------------------------------------
(* SpecWrite: files written into one player's tree by absolute and relative *)
(* paths, the player changing directory in between                          *)

WritePaths == { <<"f.txt">>, P_drop, <<"/", "sec", "/", "drop.txt", "/">>, P_vault,
                <<"/", "nodir", "/", "f.txt">>, ROOT, <<".", ".">> }
WriteContents == { <<"a">>, <<"b">> }

NextWrite ==
  \/ (reqs = <<>> /\ SessionCreateSend(1))
  \/ \E r \in 1..MaxReqs : SessionCreateHandle(r)
  \/ SocketConnect(1)
  \/ \E sid \in DOMAIN sessions : JoinSession(1, sid)
  \/ \E line \in {CdUp, Line("cd", P_sec)} : Command(1, line, 0)
  \/ \E sid \in DOMAIN sessions, path \in WritePaths, contents \in WriteContents :
       VFSWriteFile(sid, path, contents)

SpecWrite == Init /\ [][NextWrite]_vars

----------------------------------------------------------------------------
(* SpecRename: the admin renaming and moving the entries of one player's    *)
(* tree, onto free names and onto names that are taken                      *)

RenamePaths == { P_secret, P_vault }
NewNames == { <<"vault">>, <<"x">> }
MoveSources == { P_secret, <<"/", "sec", "/", "x">>, <<"notes.txt">> }
MoveTargets == { P_sec, P_vault, ROOT }

NextRename ==
  \/ (reqs = <<>> /\ SessionCreateSend(1))
  \/ \E r \in 1..MaxReqs : SessionCreateHandle(r)
  \/ \E sid \in DOMAIN sessions, path \in RenamePaths, newName \in NewNames :
       AdminRename(sid, path, newName)
  \/ \E sid \in DOMAIN sessions, sourcePath \in MoveSources, targetPath \in MoveTargets :
       AdminMove(sid, sourcePath, targetPath)

SpecRename == Init /\ [][NextRename]_vars

----------------------------------------------------------------------------
(* SpecPaths: two players of one access group, the first asking for a       *)
(* session twice, under security deletes by the player and by the admin,    *)
(* and the round started and ended                                          *)

PathUsers == <<1, 5, 1>>

NextPaths ==
  \/ (Len(reqs) < Len(PathUsers) /\ SessionCreateSend(PathUsers[Len(reqs) + 1]))
  \/ \E r \in 1..Len(reqs) : ((\A q \in 1..(r - 1) : reqs[q].state = "done")
                              /\ SessionCreateHandle(r))
  \/ SocketConnect(1)
  \/ \E sid \in DOMAIN sessions : JoinSession(1, sid)
  \/ Command(1, Line("rm", P_key), 0)
  \/ CommandResume(1)
  \/ \E sid \in DOMAIN sessions : AdminDelete(sid, P_key)
  \/ AdminDeleteResume
  \/ RoundStart
  \/ RoundEnd

SpecPaths == Init /\ [][NextPaths]_vars

----------------------------------------------------------------------------
(* SpecRound: sessions created, reused and joined before, during and after  *)
(* a round                                                                  *)

NextRound ==
  \/ \E u \in {1, 2} : SessionCreateSend(u)
  \/ \E r \in 1..MaxReqs : SessionCreateHandle(r)
  \/ SocketConnect(1)
  \/ \E sid \in DOMAIN sessions : JoinSession(1, sid)
  \/ RoundStart
  \/ RoundEnd

SpecRound == Init /\ [][NextRound]_vars

----------------------------------------------------------------------------
(* SpecHistory: one session's history filled past its capacity, the n-th    *)
(* command logged being the numeral n, so that every entry is told apart    *)

\* the number of the command logged last, 0 before the first
LastLogged(session) ==
  IF session.commandHistory = <<>> THEN 0
  ELSE ParseInt(session.commandHistory[Len(session.commandHistory)], 10).val

NextHistory ==
  \/ \E u \in {1, 2} : (reqs = <<>> /\ SessionCreateSend(u))
  \/ \E r \in 1..MaxReqs : SessionCreateHandle(r)
  \/ \E sid \in DOMAIN sessions :
       /\ LastLogged(sessions[sid]) < MaxLogged
       /\ LogCommand(sid, Decimal(LastLogged(sessions[sid]) + 1))
  \/ \E sid \in {1, 2} : (sid \notin DOMAIN sessions /\ LogCommand(sid, Decimal(1)))

SpecHistory == Init /\ [][NextHistory]_vars

----------------------------------------------------------------------------
(* SpecCwd: one player changing directory and deleting, while the admin     *)
(* deletes, renames, moves and overwrites the player's start directory      *)

CwdLines == { CdUp, Line("cd", P_sec), Line("rm", <<".">>) }

NextCwd ==
  \/ (reqs = <<>> /\ SessionCreateSend(1))
  \/ \E r \in 1..MaxReqs : SessionCreateHandle(r)
  \/ SocketConnect(1)
  \/ \E sid \in DOMAIN sessions : JoinSession(1, sid)
  \/ \E line \in CwdLines : Command(1, line, 0)
  \/ \E sid \in DOMAIN sessions : AdminDelete(sid, P_access_point_2)
  \/ \E sid \in DOMAIN sessions : AdminRename(sid, P_access_point_2, <<"x">>)
  \/ \E sid \in DOMAIN sessions : AdminMove(sid, P_access_point_2, P_sec)
  \/ \E sid \in DOMAIN sessions : AdminPushFile(sid, P_access_point_2, <<"a">>, NULL)

SpecCwd == Init /\ [][NextCwd]_vars

----------------------------------------------------------------------------
(* SpecAccess: two players of one access group, one of them deleting the    *)
(* security file, while the admin locks and unlocks the vault               *)

NextAccess ==
  \/ (Len(reqs) < Len(SessionUsers) /\ SessionCreateSend(SessionUsers[Len(reqs) + 1]))
  \/ \E r \in 1..Len(reqs) : ((\A q \in 1..(r - 1) : reqs[q].state = "done")
                              /\ SessionCreateHandle(r))
  \/ SocketConnect(1)
  \/ \E sid \in DOMAIN sessions : JoinSession(1, sid)
  \/ Command(1, Line("rm", P_key), 0)
  \/ CommandResume(1)
  \/ \E sid \in DOMAIN sessions, l \in {"true", "false"} : AdminLock(sid, P_vault, l)

SpecAccess == Init /\ [][NextAccess]_vars

----------------------------------------------------------------------------
(* SpecRecheck: one player decrypting the puzzle's file with the right and  *)
(* with a wrong key, the admin pushing the encrypted file anew in between   *)

DecryptWrong == DecryptLine(P_secret, <<" ", "7">>)

SecretContents == <<XorTag, "6", "c", "6", "6", "6", "b", "6", "d">>

NextRecheck ==
  \/ (reqs = <<>> /\ SessionCreateSend(1))
  \/ \E r \in 1..MaxReqs : SessionCreateHandle(r)
  \/ SocketConnect(1)
  \/ \E sid \in DOMAIN sessions : JoinSession(1, sid)
  \/ \E line \in {DecryptRight, DecryptWrong} : Command(1, line, 0)
  \/ \E sid \in DOMAIN sessions :
       AdminPushFile(sid, P_secret, SecretContents, [encrypted |-> TRUE])
  \/ RoundStart

SpecRecheck == Init /\ [][NextRecheck]_vars

----------------------------------------------------------------------------
(* SpecEffects: one player opening the notes that solve the open_notes      *)
(* puzzle, whose effects lock /sec and raise the alert, while the admin     *)
(* may have deleted /sec before                                             *)

CatNotes == Line("cat", <<"notes.txt">>)

NextEffects ==
  \/ (reqs = <<>> /\ SessionCreateSend(1))
  \/ \E r \in 1..MaxReqs : SessionCreateHandle(r)
  \/ SocketConnect(1)
  \/ \E sid \in DOMAIN sessions : JoinSession(1, sid)
  \/ \E line \in {CatNotes, CdUp} : Command(1, line, 0)
  \/ \E sid \in DOMAIN sessions : AdminDelete(sid, P_sec)
  \/ RoundStart
  \/ RoundEnd

SpecEffects == Init /\ [][NextEffects]_vars

----------------------------------------------------------------------------
(* SpecLocked: one player naming /sec/secret.bin in cat, decrypt and rm     *)
(* while the admin sets and clears the file's locked flag                   *)

LockedLines == { Line("cat", P_secret), DecryptRight, Line("rm", P_secret) }

NextLocked ==
  \/ (reqs = <<>> /\ SessionCreateSend(1))
  \/ \E r \in 1..MaxReqs : SessionCreateHandle(r)
  \/ SocketConnect(1)
  \/ \E sid \in DOMAIN sessions : JoinSession(1, sid)
  \/ \E line \in LockedLines : Command(1, line, 0)
  \/ \E sid \in DOMAIN sessions, l \in {"true", "false"} : AdminLock(sid, P_secret, l)
  \/ RoundStart

SpecLocked == Init /\ [][NextLocked]_vars

----------------------------------------------------------------------------
(* SpecMove: VFSEngine.move on one session's tree, with files, directories  *)
(* and the root as sources, and targets outside, at and below the source    *)

MoveFrom == { P_secret, P_sec, ROOT }
MoveInto == { P_vault, P_sec, ROOT, P_server_room }

NextMove ==
  \/ (reqs = <<>> /\ SessionCreateSend(1))
  \/ \E r \in 1..MaxReqs : SessionCreateHandle(r)
  \/ \E sid \in DOMAIN sessions, sourcePath \in MoveFrom, targetPath \in MoveInto :
       VFSMove(sid, sourcePath, targetPath)

SpecMove == Init /\ [][NextMove]_vars

----------------------------------------------------------------------------
(* SpecHome: one player giving cd with and without an argument while the    *)
(* admin sets and clears the locked flag of the root directory              *)

HomeLines == { Line("cd", <<>>), Line("cd", ROOT), CdUp }

NextHome ==
  \/ (reqs = <<>> /\ SessionCreateSend(1))
  \/ \E r \in 1..MaxReqs : SessionCreateHandle(r)
  \/ SocketConnect(1)
  \/ \E sid \in DOMAIN sessions : JoinSession(1, sid)
  \/ \E line \in HomeLines : Command(1, line, 0)
  \/ \E sid \in DOMAIN sessions, l \in {"true", "false"} : AdminLock(sid, ROOT, l)
  \/ RoundStart

SpecHome == Init /\ [][NextHome]_vars

----------------------------------------------------------------------------
(* SpecStore: one player changing directory, decrypting and removing, the   *)
(* socket closing in between, and the stored row of the session beside it   *)

StoreLines == { CdUp, DecryptRight, Line("rm", P_secret) }

NextStore ==
  \/ (reqs = <<>> /\ SessionCreateSend(1))
  \/ \E r \in 1..MaxReqs : SessionCreateHandle(r)
  \/ SocketConnect(1)
  \/ \E sid \in DOMAIN sessions : JoinSession(1, sid)
  \/ \E line \in StoreLines : Command(1, line, 0)
  \/ Disconnect(1)
  \/ RoundStart

SpecStore == Init /\ [][NextStore]_vars

----------------------------------------------------------------------------
(* SpecFail: every VFS operation called on the trees of two sessions, with  *)
(* paths that are there, missing, files and directories, and with keys,     *)
(* names and targets that are accepted and refused                          *)

VFSOps == { "list", "readFile", "changeDirectory", "decrypt", "addFile", "setLock",
            "rename", "move", "delete" }
FailPaths == { P_secret, P_vault, <<"/", "nope", "/", "f">> }
FailArgs == { <<"7">>, <<"vault">>, P_vault }

NextFail ==
  \/ (Len(reqs) < Len(SessionUsers) /\ SessionCreateSend(SessionUsers[Len(reqs) + 1]))
  \/ \E r \in 1..Len(reqs) : ((\A q \in 1..(r - 1) : reqs[q].state = "done")
                              /\ SessionCreateHandle(r))
  \/ \E sid \in DOMAIN sessions, op \in VFSOps, path \in FailPaths, arg \in FailArgs :
       (sid = 1 /\ Cardinality(DOMAIN sessions) = Len(SessionUsers)
                /\ VFSCall(sid, op, path, arg))

SpecFail == Init /\ [][NextFail]_vars

----------------------------------------------------------------------------
(* SpecTrigger: PuzzleEngine.checkTrigger called on one session with the    *)
(* types and paths of the puzzles' triggers and with others, the admin      *)
(* clearing the lock the open_notes puzzle sets and raising the alert       *)

TriggerTypes == { "open", "decrypt", "scan" }
TriggerPaths == { <<"notes.txt">>, P_secret, P_sec }

NextTrigger ==
  \/ (reqs = <<>> /\ SessionCreateSend(1))
  \/ \E r \in 1..MaxReqs : SessionCreateHandle(r)
  \/ \E sid \in DOMAIN sessions, type \in TriggerTypes, path \in TriggerPaths :
       PuzzleCheckTrigger(sid, type, path)
  \/ \E sid \in DOMAIN sessions, l \in {"true", "false"} : AdminLock(sid, P_sec, l)
  \/ \E sid \in DOMAIN sessions : AITrigger(sid, "admin_escalate", 0)
  \/ RoundStart
  \/ RoundEnd

SpecTrigger == Init /\ [][NextTrigger]_vars

----------------------------------------------------------------------------
(* SpecSearch: one player searching for names and contents while the admin  *)
(* locks and unlocks the files searched for and a directory above them      *)

SearchPatterns == { <<"notes.txt">>, <<"TOKEN">>, <<"6", "c">>, <<"zzz">> }
SearchLocks == { P_sec, P_secret, P_key }

NextSearch ==
  \/ (reqs = <<>> /\ SessionCreateSend(1))
  \/ \E r \in 1..MaxReqs : SessionCreateHandle(r)
  \/ SocketConnect(1)
  \/ \E sid \in DOMAIN sessions : JoinSession(1, sid)
  \/ \E pattern \in SearchPatterns : Command(1, Line("search", pattern), 0)
  \/ \E sid \in DOMAIN sessions, path \in SearchLocks, l \in {"true", "false"} :
       AdminLock(sid, path, l)

SpecSearch == Init /\ [][NextSearch]_vars

----------------------------------------------------------------------------
(* SpecParse: CommandParser.parse applied to every line of at most          *)
(* MaxLineLen characters over blanks, the option prefix and two words       *)

CommandLines == Strings({" ", "--", "k", "LS"}, MaxLineLen)

ParseCall(line) ==
  /\ out.op = "init"
  /\ out' = [op |-> "parse", line |-> line, parsed |-> parse(line)]
  /\ UNCHANGED <<sessions, nextId, globalRoundStarted, sharedMeta, db, sockets, reqs,
                 inflight>>

NextParse == out.op = "init" /\ \E line \in CommandLines : ParseCall(line)

SpecParse == Init /\ [][NextParse]_vars

----------------------------------------------------------------------------
(* Claims about the AI engine, checked under SpecAI *)

C2_LevelTenIsAlarm ==
  \A sid \in DOMAIN sessions :
    sessions[sid].aiState.level = 10 => sessions[sid].aiState.status = "alarm"

----------------------------------------------------------------------------
(* Claims about locking, checked under SpecLock *)

\* the paths (as segment lists) of all nodes of a tree
RECURSIVE NodePaths(_)
NodePaths(node) ==
  {<<>>} \cup UNION { { <<n>> \o p : p \in NodePaths(node.children[n]) } :
                      n \in DOMAIN ChildrenOf(node) }

IsDirAt(root, parts) == Walk(root, parts) # NULL /\ Walk(root, parts).type = "dir"

\* C3: while a directory d carries the locked flag, list on d and on every
\* directory below d fails with permission denied, whatever unlockedPaths holds.
C3_LockedDirDeniesSubtree ==
  \A sid \in DOMAIN sessions :
    LET s == sessions[sid] IN
    \A d \in NodePaths(s.fs.root), e \in NodePaths(s.fs.root) :
      ( /\ IsDirAt(s.fs.root, d)
        /\ MetaFlag(Walk(s.fs.root, d), sharedMeta, "locked")
        /\ IsDirAt(s.fs.root, e)
        /\ Len(d) <= Len(e) /\ SubSeq(e, 1, Len(d)) = d )
      => LET r == list(s, sharedMeta, SlashJoin(e))
         IN ~r.ok /\ r.err = "permission_denied"

\* the part of C3 the code keeps: list on the locked directory itself is denied
C3_LockedDirDeniesItself ==
  \A sid \in DOMAIN sessions :
    LET s == sessions[sid] IN
    \A d \in NodePaths(s.fs.root) :
      (IsDirAt(s.fs.root, d) /\ MetaFlag(Walk(s.fs.root, d), sharedMeta, "locked"))
      => LET r == list(s, sharedMeta, SlashJoin(d))
         IN ~r.ok /\ r.err = "permission_denied"

----------------------------------------------------------------------------
(* Claims about the separation of the sessions' trees, checked under SpecShare *)

\* what a session's tree contains: every node with its contents and its meta
TreeOf(sid) == Serialize(sessions[sid].fs.root, sharedMeta)

\* the operations that are applied to the one session out.sessionId names
PerSessionOps == {"lock", "push_file", "executeEffect"}

\* C4: no node is shared between sessions: a step that applies a per-session
\* operation (admin lock, admin push-file, a puzzle effect) to one session leaves
\* what every other session's tree contains unchanged, also for nodes made by bulk
\* push-file with a meta argument and by puzzle addFile effects.
C4_NoSharedNodes ==
  [][ (out'.op \in PerSessionOps /\ "sessionId" \in DOMAIN out')
      => \A b \in DOMAIN sessions \ {out'.sessionId} :
           Serialize(sessions'[b].fs.root, sharedMeta') = TreeOf(b) ]_vars

----------------------------------------------------------------------------
(* Claims about the security-file unlock, checked under SpecUnlock *)

\* the response of a delete that found a security file: it names the deleting
\* session, the unlock paths of the file and the sessions the walk unlocked
SecurityDeleteDone ==
  /\ out.op \in {"command", "delete"}
  /\ "pathsUnlocked" \in DOMAIN out
  /\ out.pathsUnlocked # <<>>

\* C5: a step that completes the delete of the security file (unlocksPaths =
\* [/sec/vault], targetUsers = {1}) in session A leaves /sec/vault, its ancestor
\* prefix /sec and / in unlockedPaths of every other live session whose userId mod 4
\* is in targetUsers.
C5_SecurityDeleteUnlocksGroup ==
  [][ SecurityDeleteDone'
      => \A b \in DOMAIN sessions \ {out'.sessionId} :
           sessions[b].userId % 4 \in SecurityMeta.targetUsers
           => {P_vault, P_sec, ROOT} \subseteq sessions'[b].unlockedPaths ]_vars

\* C5 witness: a security delete has just completed, it unlocked another session
\* of the target group, and a session of another group is live.
C5_Witness ==
  /\ SecurityDeleteDone
  /\ \E b \in DOMAIN sessions \ {out.sessionId} :
       /\ sessions[b].userId % 4 \in SecurityMeta.targetUsers
       /\ P_vault \in sessions[b].unlockedPaths
  /\ \E n \in DOMAIN sessions : sessions[n].userId % 4 \notin SecurityMeta.targetUsers

\* C6: a step that completes a security-file delete in session A changes nothing
\* in a session whose userId mod 4 is not in targetUsers, does not change A's own
\* unlockedPaths, and changes only unlockedPaths in the targeted sessions.
C6_SecurityDeleteFrame ==
  [][ SecurityDeleteDone'
      => /\ sessions'[out'.sessionId].unlockedPaths = sessions[out'.sessionId].unlockedPaths
         /\ sharedMeta' = sharedMeta
         /\ \A b \in DOMAIN sessions \ {out'.sessionId} :
              IF sessions[b].userId % 4 \in SecurityMeta.targetUsers
              THEN [sessions'[b] EXCEPT !.unlockedPaths = sessions[b].unlockedPaths]
                   = sessions[b]
              ELSE sessions'[b] = sessions[b] ]_vars

\* C6 witness: a security delete by a session of the target group has just
\* completed with a targeted and an untargeted session live; the deleter's own
\* unlockedPaths does not hold the unlock path.
C6_Witness ==
  /\ SecurityDeleteDone
  /\ sessions[out.sessionId].userId % 4 \in SecurityMeta.targetUsers
  /\ P_vault \notin sessions[out.sessionId].unlockedPaths
  /\ out.unlockedSessions # <<>>
  /\ \E n \in DOMAIN sessions : sessions[n].userId % 4 \notin SecurityMeta.targetUsers

----------------------------------------------------------------------------
(* Claims about the session registry, checked under SpecCreate and SpecSession *)

\* C7: at any time no two live sessions have the same user, and every served
\* create request returned the id of the one live session of its user, whatever
\* the order in which the requests arrived and were served.
C7_OneLiveSessionPerUser ==
  /\ \A a \in DOMAIN sessions, b \in DOMAIN sessions :
       sessions[a].userId = sessions[b].userId => a = b
  /\ \A r \in 1..Len(reqs) :
       reqs[r].state = "done"
       => /\ reqs[r].sessionId \in DOMAIN sessions
          /\ sessions[reqs[r].sessionId].userId = reqs[r].userId

\* C7 witness: two requests of one user were both in flight before either was
\* served, both have been served, and they returned the same live session.
C7_Witness ==
  /\ out.op = "session_create"
  /\ \E r \in 1..Len(reqs), q \in 1..Len(reqs) :
       /\ r < q
       /\ reqs[r].userId = reqs[q].userId
       /\ reqs[r].state = "done" /\ reqs[q].state = "done"
       /\ reqs[r].sessionId = reqs[q].sessionId
       /\ reqs[r].sessionId \in DOMAIN sessions

\* C8: once a player's connection has disconnected, or the player has logged out,
\* the session is no longer in the live-session registry.
C8_DisconnectEvicts ==
  /\ (out.op = "disconnect" /\ out.sessionId # 0) => out.sessionId \notin DOMAIN sessions
  /\ out.op = "auth_logout"
       => \A sid \in DOMAIN sessions : sessions[sid].userId # out.userId

\* C9: a command handled while its session is held in the waiting room changes
\* neither the session's filesystem, currentPath, AI state nor puzzle state, nor
\* the unlockedPaths of any other session.
C9_WaitingRoomGatesCommands ==
  [][ (out'.op = "command" /\ sessions[out'.sessionId].waitingRoom)
      => /\ sessions'[out'.sessionId].fs = sessions[out'.sessionId].fs
         /\ sessions'[out'.sessionId].currentPath = sessions[out'.sessionId].currentPath
         /\ sessions'[out'.sessionId].aiState = sessions[out'.sessionId].aiState
         /\ sessions'[out'.sessionId].puzzleState = sessions[out'.sessionId].puzzleState
         /\ \A b \in DOMAIN sessions :
              sessions'[b].unlockedPaths = sessions[b].unlockedPaths ]_vars

----------------------------------------------------------------------------
(* Claims about freezing, checked under SpecFreeze *)

\* the session a socket has joined is frozen
FrozenAt(c) == sockets[c].session # 0 /\ sessions[sockets[c].session].frozen

\* C10: a command that arrives on a socket whose session is frozen is answered
\* with the frozen error and changes nothing (no session field, no stored row,
\* no suspended handler); a handler suspended in its delete when the session was
\* frozen can still resume, and when it does it unlinks the file and logs the
\* command.
C10_FrozenRejectsAtEntry ==
  [][ /\ \A line \in FreezeLines :
           (FrozenAt(1) /\ Command(1, line, 0))
           => /\ out'.op = "error" /\ out'.message = "frozen"
              /\ UNCHANGED <<sessions, sharedMeta, db, sockets, inflight>>
      /\ (inflight[1] # NULL /\ inflight'[1] = NULL)
           => LET sid == inflight[1].sessionId IN
              /\ out'.op = "command"
              /\ getNode(sessions'[sid].fs, P_key) = NULL
              /\ Len(sessions'[sid].commandHistory) = Len(sessions[sid].commandHistory) + 1
    ]_vars

\* C10 witness: the frozen error has just been sent to a socket whose session is
\* frozen.
C10_Witness ==
  /\ out.op = "error" /\ out.message = "frozen"
  /\ FrozenAt(1)

\* C10 witness of the second half: a delete that was suspended has completed in
\* a session that is frozen.
C10_InFlightCompleted ==
  /\ out.op = "command"
  /\ sessions[out.sessionId].frozen
  /\ out.command = Line("rm", P_key)
  /\ getNode(sessions[out.sessionId].fs, P_key) = NULL

----------------------------------------------------------------------------
(* Claims about paths, checked under SpecCd and SpecResolve *)

\* the segments of a path between its slashes, empty ones included; the root has none
RECURSIVE RawSegments(_, _)
RawSegments(s, cur) ==
  IF s = <<>> THEN <<cur>>
  ELSE IF Head(s) = "/" THEN <<cur>> \o RawSegments(Tail(s), <<>>)
       ELSE RawSegments(Tail(s), Append(cur, Head(s)))

SegmentsOf(p) == IF p = ROOT THEN <<>> ELSE RawSegments(Tail(p), <<>>)

Rooted(p) == p # <<>> /\ Head(p) = "/"

NoSegment(p, bad) == \A i \in 1..Len(SegmentsOf(p)) : SegmentsOf(p)[i] \notin bad

\* C11: in every reachable state every session's currentPath starts with '/', has
\* no empty segment (so no doubled and no trailing slash, the root aside) and no
\* '.' or '..' segment.
C11_CurrentPathNormalized ==
  \A sid \in DOMAIN sessions :
    /\ Rooted(sessions[sid].currentPath)
    /\ NoSegment(sessions[sid].currentPath, {<<>>, <<".">>, <<".", ".">>})

\* C12: for every currentPath and every non-empty target, relative or absolute,
\* the path resolvePath returns starts with '/' and has no '.' and no empty segment.
C12_ResolveRootedNoDotNoEmpty ==
  (out.op = "resolvePath" /\ out.targetPath # <<>>)
  => /\ Rooted(out.result)
     /\ NoSegment(out.result, {<<>>, <<".">>})

\* the stack after the first n segments of a target, processed left to right:
\* '.' is skipped, '..' pops (a no-op on the empty stack), a name is pushed
RECURSIVE StackAfter(_, _, _)
StackAfter(stack, segs, n) ==
  IF n = 0 THEN stack
  ELSE LET before == StackAfter(stack, segs, n - 1) IN
       CASE segs[n] = <<".">> -> before
         [] segs[n] = <<".", ".">> ->
              IF before = <<>> THEN <<>> ELSE SubSeq(before, 1, Len(before) - 1)
         [] OTHER -> Append(before, segs[n])

NonEmpty(segs) == SelectSeq(segs, LAMBDA x : x # <<>>)

\* C13: for a relative target resolvePath returns '/' followed by the stack of
\* currentPath's segments after the target's segments were processed left to
\* right, joined by '/'; ('/a/b', '../c') gives '/a/c' and ('/', '..') gives '/'.
C13_RelativeIsStackWalk ==
  (out.op = "resolvePath" /\ out.targetPath # <<>> /\ Head(out.targetPath) # "/")
  => LET stack == NonEmpty(SegmentsOf(out.currentPath))
         segs == NonEmpty(RawSegments(out.targetPath, <<>>))
         final == StackAfter(stack, segs, Len(segs))
     IN /\ Rooted(out.result)
        /\ SegmentsOf(out.result) = final
        /\ (out.currentPath = <<"/", "a", "/", "b">>
            /\ out.targetPath = <<".", ".", "/", "c">>)
           => out.result = <<"/", "a", "/", "c">>
        /\ (out.currentPath = ROOT /\ out.targetPath = <<".", ".">>) => out.result = ROOT

\* C13 witness: resolvePath('/a/b', '../c') has returned '/a/c'.
C13_Witness ==
  /\ out.op = "resolvePath"
  /\ out.currentPath = <<"/", "a", "/", "b">>
  /\ out.targetPath = <<".", ".", "/", "c">>
  /\ out.result = <<"/", "a", "/", "c">>

----------------------------------------------------------------------------
(* Claims about the listing of directories, checked under SpecList *)

\* list succeeds on the directory at parts and leaves out one of its children
ListOmitsChild(sid, parts) ==
  LET s == sessions[sid]
      r == list(s, sharedMeta, SlashJoin(parts))
  IN /\ IsDirAt(s.fs.root, parts)
     /\ r.ok
     /\ \E n \in DOMAIN ChildrenOf(Walk(s.fs.root, parts)) :
          n \notin { e.name : e \in r.val }

SomeListOmitsChild ==
  \E sid \in DOMAIN sessions : \E parts \in NodePaths(sessions[sid].fs.root) :
    ListOmitsChild(sid, parts)

\* C14: a session reaches a state in which list succeeds on a directory and yet
\* omits a child of it, the child's own path failing the test against
\* unlockedPaths.
C14_ListOmitsInaccessibleChild == <>SomeListOmitsChild

\* what the code does instead of C14: whenever list succeeds it shows every child
C14_ListShowsEveryChild == ~SomeListOmitsChild


----------------------------------------------------------------------------
(* Claims about decryption, checked under SpecDecrypt and SpecXor *)

\* the file at P_secret holds the tagged ciphertext of "FLAG" under 42 and is
\* flagged encrypted
HoldsCiphertext(session, heap) ==
  LET node == getNode(session.fs, P_secret)
  IN /\ node # NULL
     /\ node.type = "file"
     /\ MetaFlag(node, heap, "encrypted")
     /\ node.contents = <<XorTag, "6", "c", "6", "6", "6", "b", "6", "d">>

\* the step is the answer to `decrypt /sec/secret.bin --key 42` of a session
\* whose file held the ciphertext
DecryptRightKeyDone(sid) ==
  /\ sid \in DOMAIN sessions
  /\ HoldsCiphertext(sessions[sid], sharedMeta)
  /\ out'.op = "command"
  /\ out'.sessionId = sid
  /\ out'.command = DecryptRight
  /\ Len(sessions'[sid].commandHistory) = Len(sessions[sid].commandHistory) + 1

\* C15: the command `decrypt p --key k`, p being the decrypt trigger's path and k the
\* puzzle's key, on a file holding the ciphertext under k, outputs the plaintext,
\* leaves the puzzle solved in puzzleState and has run the success effects in list
\* order: the flag file exists and carries the lock the second effect sets on it
C15_DecryptSolvesPuzzle ==
  [][\A sid \in DOMAIN sessions :
       DecryptRightKeyDone(sid) =>
         /\ out'.result.error = ""
         /\ out'.result.output = <<"F", "L", "A", "G">>
         /\ IsSolved(sessions'[sid], "decrypt_secret")
         /\ LET flag == getNode(sessions'[sid].fs, P_flag)
            IN /\ flag # NULL
               /\ flag.type = "file"
               /\ flag.contents = <<"FLAG">>
               /\ MetaFlag(flag, sharedMeta', "locked")]_vars

C15_Witness ==
  /\ out.op = "command"
  /\ out.command = DecryptRight
  /\ out.result.output = <<"F", "L", "A", "G">>
  /\ IsSolved(sessions[out.sessionId], "decrypt_secret")
  /\ getNode(sessions[out.sessionId].fs, P_flag) # NULL

IsString(v) == DOMAIN v = 1..Len(v)

\* C16: a flagged file holding the tag and the two-hex-digit encoding of each
\* (byte XOR K) decrypts with key K to exactly the plaintext, and with any other
\* integer key to some string, without an error
C16_XorRoundTrip ==
  out.op = "decrypt" =>
    /\ out.ok
    /\ IsString(out.val)
    /\ out.key = out.k =>
         /\ out.val = [i \in 1..Len(out.plain) |-> FromCharCode(out.plain[i])]
         /\ out.contents = out.val

C16_Witness ==
  /\ out.op = "decrypt"
  /\ out.plain = <<70, 255>>
  /\ out.k = 42
  /\ out.key = 42
  /\ out.val = <<"F", FromCharCode(255)>>


----------------------------------------------------------------------------
(* Claims about writing files, checked under SpecWrite *)

\* C17: whenever addFile / writeFile succeeds, looking up the path it returned in
\* the session's tree yields a file node holding the contents just written
C17_WrittenPathLooksUp ==
  (out.op = "writeFile" /\ out.ok) =>
    LET node == getNode(sessions[out.sessionId].fs, out.val)
    IN /\ node # NULL
       /\ node.type = "file"
       /\ node.contents = out.contents

----------------------------------------------------------------------------
(* Claims about rename and move, checked under SpecRename *)

\* the entry at path exists in the session's tree and its parent holds newName too
NameTaken(session, path, newName) ==
  LET parts == Split(resolvePath(session.currentPath, path))
      parent == Walk(session.fs.root, ButLast(parts))
  IN /\ parts # <<>>
     /\ parent # NULL
     /\ HasChild(parent, parts[Len(parts)])
     /\ HasChild(parent, newName)

\* the source exists and the target is a directory holding the source's name
TargetHoldsName(session, sourcePath, targetPath) ==
  LET parts == Split(resolvePath(session.currentPath, sourcePath))
      target == getNode(session.fs, resolvePath(session.currentPath, targetPath))
  IN /\ parts # <<>>
     /\ Walk(session.fs.root, parts) # NULL
     /\ target # NULL
     /\ target.type = "dir"
     /\ HasChild(target, parts[Len(parts)])

Refused(sid) ==
  /\ out'.status = 400
  /\ out'.error = "already_exists"
  /\ sessions'[sid] = sessions[sid]
  /\ sharedMeta' = sharedMeta

\* C18: a rename onto a name one of the node's siblings has, and a move into a
\* directory that holds an entry of the source's name, fail with the conflict
\* error and leave the session's tree as it was
C18_ConflictRefused ==
  [][\A sid \in DOMAIN sessions :
       /\ (/\ out'.op = "rename"
           /\ out'.sessionId = sid
           /\ NameTaken(sessions[sid], out'.path, out'.newName)) => Refused(sid)
       /\ (/\ out'.op = "move"
           /\ out'.sessionId = sid
           /\ TargetHoldsName(sessions[sid], out'.sourcePath, out'.targetPath))
            => Refused(sid)]_vars

\* a rename refused after an earlier rename took the name
C18_Witness ==
  /\ out.op = "rename"
  /\ out.status = 400
  /\ out.error = "already_exists"
  /\ out.newName = <<"x">>
  /\ NameTaken(sessions[out.sessionId], out.path, out.newName)

----------------------------------------------------------------------------
(* Claims about unlocked paths, checked under SpecPaths *)

\* C19: across every step (a player's command, an admin action, the propagation
\* of a security delete, the start and end of a round, the reuse of a session)
\* each session's unlockedPaths after the step contains the set before it
C19_UnlockedPathsNeverShrink ==
  [][\A sid \in DOMAIN sessions :
       /\ sid \in DOMAIN sessions'
       /\ sessions[sid].unlockedPaths \subseteq sessions'[sid].unlockedPaths]_vars

\* a session that owes the vault to a teammate's delete, after the round ended
C19_Witness ==
  /\ out.op = "round_end"
  /\ \E sid \in DOMAIN sessions :
       /\ P_vault \in sessions[sid].unlockedPaths
       /\ <<"/">> \o server_room \in sessions[sid].unlockedPaths

----------------------------------------------------------------------------
(* Claims about the round, checked under SpecRound *)

InRound(session) == session.roundStarted /\ ~session.waitingRoom
InWaitingRoom(session) == session.waitingRoom /\ ~session.roundStarted

\* C20: after startRound every live session has left the waiting room, after
\* endRound every live session is back in it, and in every state each session's
\* roundStarted equals the global flag and its waitingRoom is the negation,
\* sessions created, reused or joined during a round included
C20_RoundFlagsFollowGlobal ==
  /\ out.op = "round_start" => \A sid \in DOMAIN sessions : InRound(sessions[sid])
  /\ out.op = "round_end" => \A sid \in DOMAIN sessions : InWaitingRoom(sessions[sid])
  /\ \A sid \in DOMAIN sessions :
       /\ sessions[sid].roundStarted = globalRoundStarted
       /\ sessions[sid].waitingRoom = ~globalRoundStarted

\* a session created while the round is on
C20_Witness ==
  /\ out.op = "session_create"
  /\ globalRoundStarted
  /\ out.sessionId = nextId
  /\ \A r \in 1..Len(reqs) : reqs[r].state = "done" => reqs[r].roundStarted
  /\ InRound(sessions[out.sessionId])

----------------------------------------------------------------------------
(* Claims about the command history, checked under SpecHistory *)

\* C21: a session's history never holds more than 100 entries; logCommand appends
\* the command as the newest entry and, when the history already holds 100,
\* evicts exactly the oldest one and keeps the order of the others
C21_HistoryBounded ==
  [][\A sid \in DOMAIN sessions :
       (out'.op = "logCommand" /\ out'.sessionId = sid) =>
         LET h == sessions[sid].commandHistory
         IN /\ Len(sessions'[sid].commandHistory) <= 100
            /\ sessions'[sid].commandHistory =
                 IF Len(h) < 100 THEN Append(h, out'.command)
                 ELSE Append(Tail(h), out'.command)]_vars

\* a full history whose oldest entries were evicted
C21_Witness ==
  /\ out.op = "logCommand"
  /\ out.sessionId \in DOMAIN sessions
  /\ Len(sessions[out.sessionId].commandHistory) = 100
  /\ sessions[out.sessionId].commandHistory[1] = <<"3">>
  /\ sessions[out.sessionId].commandHistory[100] = <<"1", "0", "2">>

----------------------------------------------------------------------------
(* Claims about the current directory, checked under SpecCwd *)

\* C22: in every reachable state each session's currentPath resolves, in the
\* session's own tree, to an existing directory
C22_CurrentPathIsDirectory ==
  \A sid \in DOMAIN sessions :
    LET node == getNode(sessions[sid].fs, sessions[sid].currentPath)
    IN node # NULL /\ node.type = "dir"

----------------------------------------------------------------------------
(* Claims about the accessibility test, checked under SpecAccess *)

\* absolute paths of the seed, of directories and of files, and one of no node
ProbePaths ==
  { ROOT, P_server_room, P_access_point_2, P_sec, P_vault, P_secret, P_key,
    <<"/", "server_room", "/", "access_point_", "1">>, <<"/", "nodir">> }

\* what list, read and changeDirectory answer for a path: whether they succeed,
\* their error and what they return
Answers3(session, heap, path) ==
  LET l == list(session, heap, path)
      r == readFile(session, heap, path)
      c == changeDirectory(session, heap, path)
  IN <<l.ok, l.err, l.val, r.ok, r.err, r.val, c.ok, c.err, c.val>>

\* a denial comes with the locked flag of the node the path names
DeniedOnlyByOwnLock(session, heap, path) ==
  (\/ list(session, heap, path).err = "permission_denied"
   \/ readFile(session, heap, path).err = "permission_denied"
   \/ changeDirectory(session, heap, path).err = "permission_denied")
    => MetaFlag(getNode(session.fs, path), heap, "locked")

RootAlwaysUnlocked ==
  \A sid \in DOMAIN sessions :
    /\ ROOT \in sessions[sid].unlockedPaths
    /\ \A path \in ProbePaths :
         /\ isPathUnlocked(sessions[sid], path)
         /\ DeniedOnlyByOwnLock(sessions[sid], sharedMeta, path)

PropagationChangesNoAnswer ==
  \A sid \in DOMAIN sessions :
    sessions'[sid].unlockedPaths # sessions[sid].unlockedPaths =>
      \A path \in ProbePaths :
        Answers3(sessions'[sid], sharedMeta', path) = Answers3(sessions[sid], sharedMeta, path)

\* C23: '/' is a member of every session's unlockedPaths in every state, so the
\* accessibility test is true of every absolute path; list, read and
\* changeDirectory are denied only by the locked flag of the node itself, and a
\* propagated unlock changes nothing a session can list, read or enter
C23_RootUnlocksEverything ==
  []RootAlwaysUnlocked /\ [][PropagationChangesNoAnswer]_vars

\* a teammate's session after the propagation reached it, its vault locked
C23_Witness ==
  \E sid \in DOMAIN sessions :
    /\ P_vault \in sessions[sid].unlockedPaths
    /\ MetaFlag(getNode(sessions[sid].fs, P_vault), sharedMeta, "locked")
    /\ ~changeDirectory(sessions[sid], sharedMeta, P_vault).ok

----------------------------------------------------------------------------
(* Claims about solved puzzles, checked under SpecRecheck *)

\* C24: once the puzzle is recorded solved in the session's puzzleState, no later
\* decrypt on its trigger path runs its validation or its effects: the alert its
\* failure effect raises and the flag file its success effects write stay as they are
C24_SolvedPuzzleNotRechecked ==
  [][\A sid \in DOMAIN sessions :
       (/\ IsSolved(sessions[sid], "decrypt_secret")
        /\ out'.op = "command"
        /\ out'.sessionId = sid)
       => /\ sessions'[sid].aiState = sessions[sid].aiState
          /\ getNode(sessions'[sid].fs, P_flag) = getNode(sessions[sid].fs, P_flag)]_vars

----------------------------------------------------------------------------
(* Claims about puzzle effects, checked under SpecEffects *)

\* C25: when the open_notes puzzle becomes solved in a session, each effect of its
\* success list has been applied to the session, in list order, also when one of
\* them could not be: /sec, if there, carries the lock and the alert was raised
C25_SolvedMeansEffectsApplied ==
  [][\A sid \in DOMAIN sessions :
       (~IsSolved(sessions[sid], "open_notes") /\ IsSolved(sessions'[sid], "open_notes"))
       => /\ sessions'[sid].aiState.level = Min(sessions[sid].aiState.level + 1, 10)
          /\ sessions'[sid].aiState.status # "idle"
          /\ getNode(sessions'[sid].fs, P_sec) # NULL =>
               MetaFlag(getNode(sessions'[sid].fs, P_sec), sharedMeta', "locked")]_vars

----------------------------------------------------------------------------
(* Claims about repeated decryption by the player, checked under SpecDecrypt *)

\* the step answers a decrypt command of the session that names P_secret and
\* reached VFSEngine.decrypt
DecryptOfSecret(sid) ==
  /\ out'.op = "command"
  /\ out'.sessionId = sid
  /\ parse(out'.command).command = <<"decrypt">>
  /\ resolvePath(sessions[sid].currentPath, Arg(parse(out'.command).args, 1)) = P_secret
  /\ out'.result.output # <<"Usage">>

\* the file at P_secret has been decrypted: encrypted = false and decrypted = true
SecretDone(session, heap) ==
  LET node == getNode(session.fs, P_secret)
  IN /\ node # NULL
     /\ ~MetaFlag(node, heap, "encrypted")
     /\ MetaFlag(node, heap, "decrypted")

\* C26: a decrypt of the file that returns without error, with the right or a wrong
\* integer key, leaves it with encrypted = false and decrypted = true; every later
\* decrypt command on it fails as not encrypted and reaches no puzzle validation
\* (puzzleState and aiState stay); so a puzzle left unsolved by a wrong key stays
\* unsolved under player commands
C26_DecryptIsOneShot ==
  [][\A sid \in DOMAIN sessions :
       /\ (DecryptOfSecret(sid) /\ out'.result.error = "")
            => SecretDone(sessions'[sid], sharedMeta')
       /\ (DecryptOfSecret(sid) /\ SecretDone(sessions[sid], sharedMeta))
            => /\ out'.result.error = "not_encrypted"
               /\ sessions'[sid].puzzleState = sessions[sid].puzzleState
               /\ sessions'[sid].aiState = sessions[sid].aiState
       /\ (SecretDone(sessions[sid], sharedMeta) /\ ~IsSolved(sessions[sid], "decrypt_secret"))
            => ~IsSolved(sessions'[sid], "decrypt_secret")]_vars

\* the right key given after a wrong one: refused, the puzzle still unsolved
C26_Witness ==
  /\ out.op = "command"
  /\ out.command = DecryptRight
  /\ out.result.error = "not_encrypted"
  /\ SecretDone(sessions[out.sessionId], sharedMeta)
  /\ ~IsSolved(sessions[out.sessionId], "decrypt_secret")
  /\ sessions[out.sessionId].aiState.level > 0

----------------------------------------------------------------------------
(* Claims about locked nodes, checked under SpecLocked *)

\* the file at P_secret exists and its locked flag is set
SecretLocked(session, heap) ==
  /\ getNode(session.fs, P_secret) # NULL
  /\ MetaFlag(getNode(session.fs, P_secret), heap, "locked")

\* C27: a player command (cat, decrypt, rm) naming a node whose locked flag is set
\* fails with permission denied and leaves the node, its contents and its metadata
\* where and as they were
C27_LockedNodeUntouched ==
  [][\A sid \in DOMAIN sessions :
       (/\ SecretLocked(sessions[sid], sharedMeta)
        /\ out'.op = "command"
        /\ out'.sessionId = sid
        /\ out'.command \in LockedLines)
       => /\ out'.result.error = "permission_denied"
          /\ getNode(sessions'[sid].fs, P_secret) = getNode(sessions[sid].fs, P_secret)
          /\ sharedMeta' = sharedMeta]_vars

----------------------------------------------------------------------------
(* Claims about move, checked under SpecMove *)

\* some directory below node holds a reference back to the root
RECURSIVE HasCycle(_)
HasCycle(node) ==
  \/ "cycle" \in DOMAIN node
  \/ /\ node.type = "dir"
     /\ \E n \in DOMAIN ChildrenOf(node) : HasCycle(node.children[n])

\* C28: after a move that succeeded, the moved node with its subtree is found at the
\* returned path, the source path resolves no more, a node outside source and target
\* is where it was, and the structure is a tree without cycle: for every source and
\* target, the source itself or a directory below it as target and the root as
\* source included
C28_MoveKeepsTree ==
  [][\A sid \in DOMAIN sessions :
       (out'.op = "move" /\ out'.sessionId = sid /\ out'.ok)
       => /\ getNode(sessions'[sid].fs, out'.val) = getNode(sessions[sid].fs, out'.sourcePath)
          /\ getNode(sessions'[sid].fs, out'.sourcePath) = NULL
          /\ getNode(sessions'[sid].fs, P_key) = getNode(sessions[sid].fs, P_key)
          /\ ~HasCycle(sessions'[sid].fs.root)]_vars

----------------------------------------------------------------------------
(* Claims about the cd command, checked under SpecHome *)

\* C29: a player command that changes the session's currentPath leaves it at a path
\* that then resolves to an existing directory whose locked flag is not set and
\* that passes the accessibility test, cd without argument included
C29_CdOnlyIntoOpenDirectory ==
  [][\A sid \in DOMAIN sessions :
       (/\ out'.op = "command"
        /\ out'.sessionId = sid
        /\ sessions'[sid].currentPath # sessions[sid].currentPath)
       => LET node == getNode(sessions'[sid].fs, sessions'[sid].currentPath)
          IN /\ node # NULL
             /\ node.type = "dir"
             /\ ~MetaFlag(node, sharedMeta', "locked")
             /\ isPathUnlocked(sessions'[sid], sessions'[sid].currentPath)]_vars

----------------------------------------------------------------------------
(* Claims about the stored session, checked under SpecStore *)

\* C30: when the handling of a player command that changed the session's filesystem
\* or currentPath has completed, the stored row of the session holds the filesystem
\* and the currentPath the session has in memory
C30_CommandWrittenThrough ==
  [][\A sid \in DOMAIN sessions :
       (/\ out'.op = "command"
        /\ out'.sessionId = sid
        /\ \/ sessions'[sid].fs # sessions[sid].fs
           \/ sessions'[sid].currentPath # sessions[sid].currentPath)
       => /\ db'[sid].filesystem = Snapshot(sessions'[sid], sharedMeta').filesystem
          /\ db'[sid].current_path = sessions'[sid].currentPath]_vars

----------------------------------------------------------------------------
(* Claims about the sudo hack command, checked under SpecAI *)

\* C31: one `sudo hack <target>` command applies the suspicious_command transition
\* to the issuing session exactly once: the session's aiState after the command is
\* the one a single trigger makes of the aiState before it (level min(level + 2, 10),
\* idle to probing, probing to alarm from level 5)
C31_HackTriggersOnce ==
  [][\A sid \in DOMAIN sessions :
       (out'.op = "command" /\ out'.sessionId = sid /\ out'.command = HackLine)
       => \E rv \in RandomVariations :
            sessions'[sid].aiState =
              trigger(sessions[sid].aiState, "suspicious_command", rv).ai]_vars

----------------------------------------------------------------------------
(* Claims about overlapping deletes, checked under SpecUnlock *)

\* the step completes a delete of the security file of session sid with success:
\* a player's rm answered without error, or the admin route answering 200
DeleteOfKeySucceeds(sid) ==
  \/ /\ out'.op = "command"
     /\ out'.sessionId = sid
     /\ out'.command = Line("rm", P_key)
     /\ out'.result.error = ""
  \/ /\ out'.op = "delete"
     /\ out'.status = 200
     /\ out'.sessionId = sid
     /\ out'.path = P_key

\* C32: of two deletes of one security file of one session that overlap, exactly one
\* succeeds and the other fails with not-found, and the propagation runs once: a
\* delete that completes with success has found the file still in the tree, nothing
\* having run between its existence check and its unlink
C32_OverlappingDeletesExclude ==
  [][\A sid \in DOMAIN sessions :
       DeleteOfKeySucceeds(sid) => getNode(sessions[sid].fs, P_key) # NULL]_vars

----------------------------------------------------------------------------
(* Claims about how the trigger path is written, checked under SpecDecrypt *)

\* C33: a decrypt command that names the puzzle's trigger file by a relative path,
\* resolved against currentPath to the trigger path, fires the puzzle as the command
\* with the absolute path does: with the right key on the ciphertext it leaves the
\* puzzle solved
C33_RelativePathFiresPuzzle ==
  [][\A sid \in DOMAIN sessions :
       (/\ DecryptOfSecret(sid)
        /\ HoldsCiphertext(sessions[sid], sharedMeta)
        /\ OptionKey(parse(out'.command).options).text = <<"4", "2">>)
       => IsSolved(sessions'[sid], "decrypt_secret")]_vars

----------------------------------------------------------------------------
(* Claims about failing VFS operations, checked under SpecFail *)

\* C34: a VFS operation that fails (list, read, changeDirectory, decrypt, addFile,
\* setLock, rename, move, delete; not found, type mismatch, permission denied,
\* conflict, invalid key, unsupported format) leaves the session's tree with its
\* metadata, its currentPath and unlockedPaths, and every other session, as before
C34_FailedOperationChangesNothing ==
  [][\A sid \in DOMAIN sessions :
       (out'.op = "vfs" /\ out'.sessionId = sid /\ ~out'.ok)
       => /\ sessions'[sid].fs = sessions[sid].fs
          /\ sessions'[sid].currentPath = sessions[sid].currentPath
          /\ sessions'[sid].unlockedPaths = sessions[sid].unlockedPaths
          /\ sharedMeta' = sharedMeta
          /\ \A other \in DOMAIN sessions \ {sid} : sessions'[other] = sessions[other]]_vars

\* a decrypt refused for its key on a file that is still flagged encrypted, a
\* second session being there
C34_Witness ==
  /\ out.op = "vfs"
  /\ out.call = "decrypt"
  /\ ~out.ok
  /\ out.err = "invalid_key"
  /\ Cardinality(DOMAIN sessions) = 2
  /\ HoldsCiphertext(sessions[out.sessionId], sharedMeta)

----------------------------------------------------------------------------
(* Claims about the admin's force-set, checked under SpecAI *)

\* C35: an admin force-set is clamped to the valid ranges, whatever level and status
\* are supplied: in every reachable state each session's level is within 0..10 and
\* its status is one of idle, probing, alarm
C35_ForceSetClamped ==
  \A sid \in DOMAIN sessions :
    /\ sessions[sid].aiState.level \in 0..10
    /\ sessions[sid].aiState.status \in {"idle", "probing", "alarm"}

----------------------------------------------------------------------------
(* Claims about escalation, checked under SpecAI *)

\* the step is a challenge answered correctly
ChallengePassed ==
  /\ out'.op = "validateChallenge"
  /\ out'.res.type = "challenge"
  /\ out'.res.success

----------------------------------------------------------------------------
(* Claims about checkTrigger, checked under SpecTrigger *)

\* the step is a checkTrigger call on session sid that names the open trigger of
\* the autoSolve puzzle open_notes, not yet solved in the session
OpensNotesUnsolved(sid) ==
  /\ out'.type = "open"
  /\ out'.path = <<"notes.txt">>
  /\ ~IsSolved(sessions[sid], "open_notes")

\* C37: checkTrigger changes the session only for a puzzle unsolved in it that has a
\* trigger of exactly that type and path and is autoSolve: that puzzle becomes solved
\* and its success effects have run once (/sec locked, the alert raised by one); a
\* matching trigger of the puzzle that is not autoSolve, a trigger of a puzzle solved
\* already and a trigger no puzzle has leave the session's state unchanged
C37_CheckTriggerFrame ==
  [][\A sid \in DOMAIN sessions :
       (out'.op = "checkTrigger" /\ out'.sessionId = sid)
       => IF OpensNotesUnsolved(sid)
          THEN /\ IsSolved(sessions'[sid], "open_notes")
               /\ DOMAIN sessions'[sid].puzzleState =
                    DOMAIN sessions[sid].puzzleState \cup {"open_notes"}
               /\ MetaFlag(getNode(sessions'[sid].fs, P_sec), sharedMeta', "locked")
               /\ sessions'[sid].aiState.level = Min(sessions[sid].aiState.level + 1, 10)
               /\ sessions'[sid].currentPath = sessions[sid].currentPath
               /\ getNode(sessions'[sid].fs, P_server_room)
                    = getNode(sessions[sid].fs, P_server_room)
          ELSE sessions'[sid] = sessions[sid] /\ sharedMeta' = sharedMeta]_vars

\* the decrypt trigger of the puzzle that is not autoSolve has been checked and
\* the puzzle is not solved
C37_Witness ==
  /\ out.op = "checkTrigger"
  /\ out.type = "decrypt"
  /\ out.path = P_secret
  /\ ~IsSolved(sessions[out.sessionId], "decrypt_secret")
  /\ IsSolved(sessions[out.sessionId], "open_notes")

----------------------------------------------------------------------------
(* Claims about challenge answers, checked under SpecAI *)

\* an answer without the blanks around it
Unpadded(answer) == SelectSeq(answer, LAMBDA c : c # " ")

\* C38: validateChallenge with an active challenge: an answer equal to the stored
\* one, surrounding blanks ignored, sets the level to max(0, level - 2), the status
\* to idle exactly when the new level is at most 2, and clears the challenge; any
\* other answer sets the level to min(10, level + 1) and leaves status and challenge;
\* with no active challenge the call changes nothing
C38_ChallengeAnswer ==
  [][\A sid \in DOMAIN sessions :
       (out'.op = "validateChallenge" /\ out'.sessionId = sid)
       => LET before == sessions[sid].aiState
              after == sessions'[sid].aiState
          IN IF before.challenge = NULL THEN sessions'[sid] = sessions[sid]
             ELSE IF Unpadded(out'.answer) = before.challenge.answer
             THEN /\ after.level = Max(0, before.level - 2)
                  /\ after.status = IF after.level <= 2 THEN "idle" ELSE before.status
                  /\ after.challenge = NULL
             ELSE /\ after.level = Min(10, before.level + 1)
                  /\ after.status = before.status
                  /\ after.challenge = before.challenge]_vars

\* the padded right answer accepted from level 3 or 4: the level is 1 or 2, the
\* status idle, the challenge cleared
C38_Witness ==
  /\ out.op = "validateChallenge"
  /\ out.answer = <<" ", "4", "2", " ">>
  /\ out.res.type = "challenge"
  /\ out.res.success
  /\ sessions[out.sessionId].aiState.level \in {1, 2}
  /\ sessions[out.sessionId].aiState.status = "idle"
  /\ sessions[out.sessionId].aiState.challenge = NULL

----------------------------------------------------------------------------
(* Claims about search, checked under SpecSearch *)

\* the files of the seed
SeedFiles ==
  { P_secret, P_key } \cup
  { <<"/">> \o server_room \o <<"/">> \o access_point(k) \o <<"/", "notes.txt">> : k \in 1..4 }

\* C39: search(pattern) returns a hit for every file of the session's tree whose
\* path or contents match the pattern, whatever the locked flags of the file and of
\* the directories above it and whatever unlockedPaths holds, and it changes
\* nothing of the session but the command log
C39_SearchSeesEveryFile ==
  [][\A sid \in DOMAIN sessions, pattern \in SearchPatterns :
       (/\ out'.op = "command"
        /\ out'.sessionId = sid
        /\ out'.command = Line("search", pattern))
       => /\ \A path \in SeedFiles :
               LET node == getNode(sessions[sid].fs, path)
               IN (/\ node # NULL
                   /\ node.type = "file"
                   /\ RegexTest(pattern, path) \/ RegexTest(pattern, node.contents))
                  => \E hit \in out'.result.output : hit.path = path
          /\ sessions'[sid].fs = sessions[sid].fs
          /\ sessions'[sid].currentPath = sessions[sid].currentPath
          /\ sessions'[sid].unlockedPaths = sessions[sid].unlockedPaths
          /\ sessions'[sid].aiState = sessions[sid].aiState
          /\ sessions'[sid].puzzleState = sessions[sid].puzzleState
          /\ sharedMeta' = sharedMeta]_vars

\* the ciphertext found by its contents in a locked file of a locked directory
C39_Witness ==
  /\ out.op = "command"
  /\ out.command = Line("search", <<"6", "c">>)
  /\ MetaFlag(getNode(sessions[out.sessionId].fs, P_sec), sharedMeta, "locked")
  /\ MetaFlag(getNode(sessions[out.sessionId].fs, P_secret), sharedMeta, "locked")
  /\ [path |-> P_secret, type |-> "file", match |-> "content"] \in out.result.output

----------------------------------------------------------------------------
(* Claims about parse, checked under SpecParse *)

\* the tokens of a line after its verb
TokensAfterVerb(line) == Tail(SplitWs(Trim(line)))

\* token j is taken as the value of the option before it
IsValueAt(toks, j) == j > 1 /\ IsOption(toks[j - 1]) /\ ~IsOption(toks[j])

\* the tokens from j on that are neither options nor values, in their order
RECURSIVE PositionalsFrom(_, _)
PositionalsFrom(toks, j) ==
  IF j > Len(toks) THEN <<>>
  ELSE IF IsOption(toks[j]) \/ IsValueAt(toks, j) THEN PositionalsFrom(toks, j + 1)
       ELSE <<toks[j]>> \o PositionalsFrom(toks, j + 1)

\* option token j is the last one of its key
LastOfKey(toks, j) == \A l \in (j + 1)..Len(toks) : IsOption(toks[l]) => toks[l] # toks[j]

\* C40: parse splits a non-blank line on whitespace into a lower-cased verb,
\* positionals and options: every token starting with -- is an option, whose value
\* is the following token, taken from the positionals, unless there is none or it
\* starts with -- itself, and then its value is true; the positionals are the
\* remaining tokens in their order and none starts with --
C40_ParseOptions ==
  (out.op = "parse" /\ Trim(out.line) # <<>>) =>
    LET toks == TokensAfterVerb(out.line)
        parsed == out.parsed
    IN /\ parsed # NULL
       /\ parsed.command = ToLowerCase(Head(SplitWs(Trim(out.line))))
       /\ parsed.args = PositionalsFrom(toks, 1)
       /\ \A a \in 1..Len(parsed.args) : ~IsOption(parsed.args[a])
       /\ DOMAIN parsed.options = { Tail(toks[j]) : j \in { l \in 1..Len(toks) : IsOption(toks[l]) } }
       /\ \A j \in 1..Len(toks) :
            (IsOption(toks[j]) /\ LastOfKey(toks, j)) =>
              parsed.options[Tail(toks[j])] =
                IF j < Len(toks) /\ ~IsOption(toks[j + 1])
                THEN [isTrue |-> FALSE, value |-> toks[j + 1]]
                ELSE [isTrue |-> TRUE, value |-> <<>>]

\* a word, an option and a word: the first word stays, the option takes the second
C40_Witness ==
  /\ out.op = "parse"
  /\ out.line = <<"LS", " ", "k", " ", "--", " ", "k">>
  /\ out.parsed.command = <<"ls">>
  /\ out.parsed.args = << <<"k">> >>
  /\ out.parsed.options[<<>>] = [isTrue |-> FALSE, value |-> <<"k">>]

====
